---------------------------- MODULE Spec2Model ----------------------------
(***************************************************************************)
(* The geocoded-places globe component (src/unnamed/part_000): the country *)
(* GeoJSON is fetched once, coverage disks are built around the bundled    *)
(* geocoded places, every country polygon is coloured by the disk-based    *)
(* coverage test (the isCountryScratched closure) and the "countries       *)
(* visited" statistic (visitedCountriesData) is recomputed.                *)
(*                                                                         *)
(* Geometry.  The turf primitives are modelled by what they compute, on a  *)
(* plane whose coordinates are kilometres:                                 *)
(*   - a country geometry is a list of axis-parallel rectangles (the       *)
(*     polygons of a MultiPolygon); its vertices are their corners;        *)
(*   - the distance is the taxicab distance, and the disk of turf.circle   *)
(*     is the ball of that distance (a diamond), so that, as with the      *)
(*     64-gon of the code, the disk is strictly inside its bounding box;   *)
(*   - turf.centroid is the mean of the vertices, kept as the exact        *)
(*     fraction (sx/n, sy/n): every comparison is cross-multiplied;        *)
(*   - a primitive that turf makes throw returns Raise.                    *)
(* Which primitive throws is decided by the geometry: an undefined         *)
(* geometry makes turf.bbox throw, a geometry that is no (Multi)Polygon    *)
(* makes booleanPointInPolygon throw when it is the polygon argument, and  *)
(* a geometry flagged degenerate makes booleanIntersects throw.            *)
(***************************************************************************)
EXTENDS Integers, Sequences, FiniteSets, TLC

VARIABLES geocodedPlaces,       \* useMemo of the bundled geocoded.json
          countries,            \* useState({ features: [] })
          fetchStatus,          \* the promise of the GeoJSON fetch
          scratchLog,           \* per polygon: the last run of isCountryScratched
          polygonCapColor,      \* per polygon: what getPolygonColor returned
          visitLog,             \* per place: the inner loop of visitedCountriesData
          visitedCountriesData  \* useMemo: { count, list }

vars == <<geocodedPlaces, countries, fetchStatus, scratchLog, polygonCapColor,
          visitLog, visitedCountriesData>>

\* The click-and-drag globe component (src/src/components/Globe.jsx); it shares
\* countries, fetchStatus and polygonCapColor with the component above.
VARIABLES mounted,              \* the component is on the page
          scratchedCountries,   \* useState(new Set()): the ids in insertion order
          isDragging,           \* useState(false)
          queue,                \* state updates React has not rendered yet
          effects,              \* effects of the last commit that have not run yet
          localStorage,         \* the browser store: key -> value
          storageFault,         \* "none", or where a storage call raised: "save"
                                \* (the last save effect) or "past" (an earlier call)
          persisted             \* the ids the store held when the page was opened

clickVars == <<mounted, scratchedCountries, isDragging, queue, effects, localStorage,
               storageFault, persisted>>

\* The area aggregation of src/src/utils/radiusCalculator.js.
VARIABLES circlesCollection,    \* the FeatureCollection handed to the two functions
          mergeResult,          \* what mergeCircles returned, once called
          areaResult            \* what calculateTotalArea returned, once called

areaVars == <<circlesCollection, mergeResult, areaResult>>

\* The geocoder of src/src/utils/geocoder.js. Its cache overlay is the entry
\* GEOCODE_CACHE_KEY of localStorage.
VARIABLES geocodedDataFile,     \* the imported module object of data/geocoded.json
          run                   \* the activation of geocodePlaces, with the record of its waits

geoVars == <<geocodedDataFile, run>>

\* The panel of src/src/components/DataLoader.jsx.
VARIABLES loader                \* the state of DataLoader: its useState values, once mounted

loaderVars == <<loader>>

\* the variables of the utilities, which neither globe component touches
utilityVars == <<areaVars, geoVars, loaderVars>>

\* Bounds of the model.
MaxPlaces == 2
MaxCountries == 2

\* radiusCalculator.js: const RADIUS_KM = 100, returned by getDefaultRadius().
RADIUS_KM == 100

\* Stand-in for IEEE Infinity: larger than every coordinate of the model.
Infinity == 1000 * 1000

-----------------------------------------------------------------------------
(* Strings are sequences of UTF-16 code units, "" is <<>>.                 *)

NoStr == <<>>

Truthy(s) == s # NoStr

RECURSIVE StrLess(_, _)
\* a < b in code-unit order, the order of Array.prototype.sort() without a comparator
StrLess(a, b) ==
  IF b = <<>> THEN FALSE
  ELSE IF a = <<>> THEN TRUE
  ELSE IF Head(a) # Head(b) THEN Head(a) < Head(b)
  ELSE StrLess(Tail(a), Tail(b))

-----------------------------------------------------------------------------
(* Primitive results.                                                      *)

Ok(v) == [raised |-> FALSE, val |-> v]
Raise == [raised |-> TRUE, val |-> FALSE]

Abs(x) == IF x < 0 THEN -x ELSE x
Max2(a, b) == IF a < b THEN b ELSE a
Min2(a, b) == IF a < b THEN a ELSE b

Rect(x0, y0, x1, y1) == [x0 |-> x0, y0 |-> y0, x1 |-> x1, y1 |-> y1]

\* turf.point([lng, lat]); n is the denominator of the coordinates
Point(lng, lat) == [sx |-> lng, sy |-> lat, n |-> 1]

\* turf.feature(geometry): wraps the geometry, never validates it
Feature(geometry) == [type |-> "Feature", geometry |-> geometry]

RECURSIVE BboxOfRects(_, _)
\* coordEach over the vertices, keeping the least and the greatest coordinates
BboxOfRects(b, rects) ==
  IF rects = <<>> THEN b
  ELSE LET r == Head(rects)
       IN BboxOfRects(<<Min2(b[1], r.x0), Min2(b[2], r.y0),
                        Max2(b[3], r.x1), Max2(b[4], r.y1)>>, Tail(rects))

\* turf.bbox of a country feature: [minX, minY, maxX, maxY]; JS index i is i+1 here
BboxOfFeature(f) ==
  IF f.geometry.type = "undefined" THEN Raise
  ELSE Ok(BboxOfRects(<<Infinity, Infinity, -Infinity, -Infinity>>, f.geometry.rects))

RECURSIVE VertexSum(_, _)
\* coordEach over the vertices (the closing vertex of a ring left out), summing them
VertexSum(c, rects) ==
  IF rects = <<>> THEN c
  ELSE LET r == Head(rects)
       IN VertexSum([sx |-> c.sx + 2 * r.x0 + 2 * r.x1,
                     sy |-> c.sy + 2 * r.y0 + 2 * r.y1,
                     n |-> c.n + 4], Tail(rects))

\* turf.centroid: the mean of the vertices
Centroid(f) == VertexSum([sx |-> 0, sy |-> 0, n |-> 0], f.geometry.rects)

\* createCircle(lat, lng, RADIUS_KM, 64) with the properties the component attaches
CreateCircle(place) ==
  [radius |-> RADIUS_KM,
   properties |-> [lat |-> place.lat, lng |-> place.lng]]

\* turf.bbox of a circle
BboxOfCircle(circle) ==
  <<circle.properties.lng - circle.radius, circle.properties.lat - circle.radius,
    circle.properties.lng + circle.radius, circle.properties.lat + circle.radius>>

\* numerator of the distance between point p (a fraction) and the point (x, y)
DistNum(p, x, y) == Abs(p.sx - p.n * x) + Abs(p.sy - p.n * y)

\* turf.booleanPointInPolygon(point, circle): boundary included
PointInCircle(p, circle) ==
  /\ p.n > 0
  /\ DistNum(p, circle.properties.lng, circle.properties.lat) <= p.n * circle.radius

PointInRect(p, r) ==
  /\ p.n > 0
  /\ p.n * r.x0 <= p.sx /\ p.sx <= p.n * r.x1
  /\ p.n * r.y0 <= p.sy /\ p.sy <= p.n * r.y1

\* turf.booleanPointInPolygon(point, countryFeature)
PointInCountry(p, f) ==
  IF f.geometry.type \notin {"Polygon", "MultiPolygon"} THEN Raise
  ELSE Ok(\E i \in DOMAIN f.geometry.rects : PointInRect(p, f.geometry.rects[i]))

\* the least taxicab distance from the point (x, y) to rectangle r
RectDist(r, x, y) ==
  Max2(Max2(r.x0 - x, x - r.x1), 0) + Max2(Max2(r.y0 - y, y - r.y1), 0)

\* turf.booleanIntersects(countryFeature, circle)
Intersects(f, circle) ==
  IF f.geometry.degenerate THEN Raise
  ELSE Ok(\E i \in DOMAIN f.geometry.rects :
            RectDist(f.geometry.rects[i], circle.properties.lng,
                     circle.properties.lat) <= circle.radius)

\* turf.distance(centroid, circleCenter) as the fraction num/den
Distance(p, q) == [num |-> DistNum(p, q.sx, q.sy), den |-> p.n]

\* distance <= RADIUS_KM * 1.5
WithinFallback(d) == 2 * d.num <= 3 * RADIUS_KM * d.den

-----------------------------------------------------------------------------
(* The inputs: the bundled places and the country features a fetch may     *)
(* deliver.                                                                *)

Place(lng, lat) == [lat |-> lat, lng |-> lng, geocoded |-> TRUE]

\* Entries of geocoded.json: inside a country, on a border, on an island, off the
\* coast, and on the prime meridian (a coordinate of 0, which is falsy).
PlaceFixtures ==
  {Place(300, 200), Place(400, 200), Place(100, 200), Place(300, 400), Place(0, 200)}

Props(NAME, NAME_EN, NAME_LONG, ADMIN, name) ==
  [NAME |-> NAME, NAME_EN |-> NAME_EN, NAME_LONG |-> NAME_LONG, ADMIN |-> ADMIN,
   name |-> name]

Geometry(type, rects, degenerate) ==
  [type |-> type, rects |-> rects, degenerate |-> degenerate]

Country(properties, geometry) == [properties |-> properties, geometry |-> geometry]

\* a square country around (300, 200)
Inland ==
  Country(Props(NoStr, <<66>>, NoStr, <<97>>, NoStr),
          Geometry("Polygon", <<Rect(200, 100, 400, 300)>>, FALSE))
\* two islands on either side of Inland; the mean of their vertices is (300, 200)
Islands ==
  Country(Props(<<65>>, NoStr, <<65, 66>>, NoStr, NoStr),
          Geometry("MultiPolygon",
                   <<Rect(0, 100, 100, 300), Rect(500, 100, 600, 300)>>, FALSE))
\* the eastern neighbour of Inland, sharing the border x = 400
Neighbour ==
  Country(Props(NoStr, NoStr, NoStr, <<65, 66>>, <<97>>),
          Geometry("Polygon", <<Rect(400, 100, 600, 300)>>, FALSE))
\* a polygon without any name property, on which the intersection primitive throws
Degenerate ==
  Country(Props(NoStr, NoStr, NoStr, NoStr, NoStr),
          Geometry("Polygon", <<Rect(400, 100, 500, 300)>>, TRUE))
\* coordinates that are no polygon: point-in-polygon throws on them
Malformed ==
  Country(Props(NoStr, NoStr, <<97>>, NoStr, NoStr),
          Geometry("LineString", <<Rect(400, 100, 600, 300)>>, FALSE))
\* a feature without a geometry member
NoGeometry ==
  Country(Props(<<65>>, NoStr, NoStr, NoStr, NoStr),
          Geometry("undefined", <<>>, FALSE))
\* a feature whose geometry is null
NullGeometry ==
  Country(Props(NoStr, NoStr, NoStr, NoStr, <<65, 66>>),
          Geometry("null", <<>>, FALSE))
CountryFixtures ==
  {Inland, Islands, Neighbour, Degenerate, Malformed, NoGeometry, NullGeometry}

SeqsUpTo(S, n) == UNION {[1..k -> S] : k \in 0..n}

-----------------------------------------------------------------------------
(* The disk-based coverage test: scratchedCircles and isCountryScratched.  *)

\* place.geocoded && place.lat && place.lng (0 is falsy)
HasCoordinates(place) == place.geocoded /\ place.lat # 0 /\ place.lng # 0

\* the scratchedCircles memo
ScratchedCirclesOf(places) ==
  LET kept == SelectSeq(places, HasCoordinates)
  IN [i \in DOMAIN kept |-> CreateCircle(kept[i])]

\* the circleBounds lookup
CircleBounds(circles) ==
  [i \in DOMAIN circles |-> [circle |-> circles[i], bbox |-> BboxOfCircle(circles[i])]]

\* BboxDisjoint with touching boxes rejected as well
BboxDisjointOrTouching(countryBbox, bbox) ==
  \/ countryBbox[3] <= bbox[1]
  \/ countryBbox[1] >= bbox[3]
  \/ countryBbox[4] <= bbox[2]
  \/ countryBbox[2] >= bbox[4]

\* the quick bounding box check: TRUE when the disk is skipped
BboxDisjoint(countryBbox, bbox) ==
  \/ countryBbox[3] < bbox[1]
  \/ countryBbox[1] > bbox[3]
  \/ countryBbox[4] < bbox[2]
  \/ countryBbox[2] > bbox[4]

\* FallbackMatch with a strict comparison
FallbackMatchStrict(centroid, circleCenter) ==
  LET d == Distance(centroid, circleCenter)
  IN 2 * d.num < 3 * RADIUS_KM * d.den

\* the catch block of the intersection test: the distance-based check
FallbackMatch(centroid, circleCenter) ==
  WithinFallback(Distance(centroid, circleCenter))

\* TestCircle without the polygon intersection test
TestCircleNoIntersection(countryFeature, countryBbox, cb) ==
  IF BboxDisjoint(countryBbox, cb.bbox) THEN "skip"
  ELSE
    LET centroid == Centroid(countryFeature)
        circleCenter == Point(cb.circle.properties.lng, cb.circle.properties.lat)
        inCountry == PointInCountry(circleCenter, countryFeature)
    IN IF PointInCircle(centroid, cb.circle) THEN "centroid"
       ELSE IF inCountry.raised THEN "raise"
       ELSE IF inCountry.val THEN "center"
       ELSE "miss"

\* TestCircle without the try around the intersection test
TestCircleNoInnerCatch(countryFeature, countryBbox, cb) ==
  IF BboxDisjoint(countryBbox, cb.bbox) THEN "skip"
  ELSE
    LET centroid == Centroid(countryFeature)
        circleCenter == Point(cb.circle.properties.lng, cb.circle.properties.lat)
        inCountry == PointInCountry(circleCenter, countryFeature)
        crossing == Intersects(countryFeature, cb.circle)
    IN IF PointInCircle(centroid, cb.circle) THEN "centroid"
       ELSE IF inCountry.raised THEN "raise"
       ELSE IF inCountry.val THEN "center"
       ELSE IF crossing.raised THEN "raise"
       ELSE IF crossing.val THEN "intersects"
       ELSE "miss"

\* one iteration of the loop over circleBounds; what ended it
TestCircle(countryFeature, countryBbox, cb) ==
  IF BboxDisjoint(countryBbox, cb.bbox) THEN "skip"
  ELSE
    LET centroid == Centroid(countryFeature)
        circleCenter == Point(cb.circle.properties.lng, cb.circle.properties.lat)
        inCountry == PointInCountry(circleCenter, countryFeature)
        crossing == Intersects(countryFeature, cb.circle)
    IN IF PointInCircle(centroid, cb.circle) THEN "centroid"
       ELSE IF inCountry.raised THEN "raise"
       ELSE IF inCountry.val THEN "center"
       ELSE IF ~crossing.raised THEN (IF crossing.val THEN "intersects" ELSE "miss")
       ELSE IF FallbackMatch(centroid, circleCenter) THEN "fallback"
       ELSE "fallbackMiss"

Matched == {"centroid", "center", "intersects", "fallback"}

\* ScanCircles with the final return false inside the loop
ScanCirclesFirstOnly(countryFeature, countryBbox, circleBounds, k) ==
  IF k > Len(circleBounds) THEN [value |-> FALSE, raised |-> FALSE, log |-> <<>>]
  ELSE
    LET o == TestCircle(countryFeature, countryBbox, circleBounds[k])
    IN [value |-> o \in Matched, raised |-> o = "raise", log |-> <<o>>]

RECURSIVE ScanCircles(_, _, _, _)
\* the for loop: return true on the first match, leave by the exception, or run out
ScanCircles(countryFeature, countryBbox, circleBounds, k) ==
  IF k > Len(circleBounds) THEN [value |-> FALSE, raised |-> FALSE, log |-> <<>>]
  ELSE
    LET o == TestCircle(countryFeature, countryBbox, circleBounds[k])
        rest == ScanCircles(countryFeature, countryBbox, circleBounds, k + 1)
    IN IF o \in Matched THEN [value |-> TRUE, raised |-> FALSE, log |-> <<o>>]
       ELSE IF o = "raise" THEN [value |-> FALSE, raised |-> TRUE, log |-> <<o>>]
       ELSE [rest EXCEPT !.log = <<o>> \o @]

\* OnError throwing the error again
OnErrorRethrow(log) == [value |-> FALSE, caught |-> TRUE, threw |-> TRUE, log |-> log]

\* the outer catch: console.warn, return false
OnError(log) == [value |-> FALSE, caught |-> TRUE, threw |-> FALSE, log |-> log]

\* the closure returned by the isCountryScratched memo, applied to a country
IsCountryScratched(circles, country) ==
  IF Len(circles) = 0
  THEN [value |-> FALSE, caught |-> FALSE, threw |-> FALSE, log |-> <<>>]
  ELSE
    LET countryFeature == Feature(country.geometry)
        countryBbox == BboxOfFeature(countryFeature)
        r == ScanCircles(countryFeature, countryBbox.val, CircleBounds(circles), 1)
    IN IF countryBbox.raised THEN OnError(<<>>)
       ELSE IF r.raised THEN OnError(r.log)
       ELSE [value |-> r.value, caught |-> FALSE, threw |-> FALSE, log |-> r.log]

Transparent == "rgba(0, 0, 0, 0)"
Opaque == "rgba(0, 0, 0, 3)"

\* getPolygonColor
GetPolygonColor(scratched) ==
  IF scratched.threw THEN "throw"
  ELSE IF scratched.value THEN Transparent
  ELSE Opaque

-----------------------------------------------------------------------------
(* The "countries visited" statistic: the visitedCountriesData memo.       *)

\* NAME || NAME_EN || NAME_LONG || ADMIN || name || ''
CountryName(country) ==
  LET p == country.properties
  IN IF Truthy(p.NAME) THEN p.NAME
     ELSE IF Truthy(p.NAME_EN) THEN p.NAME_EN
     ELSE IF Truthy(p.NAME_LONG) THEN p.NAME_LONG
     ELSE IF Truthy(p.ADMIN) THEN p.ADMIN
     ELSE IF Truthy(p.name) THEN p.name
     ELSE NoStr

\* the filter after the map: item !== null && item.countryName
KeepItem(bboxResult, countryName) == ~bboxResult.raised /\ Truthy(countryName)

RECURSIVE CountriesWithBbox(_, _)
\* features.map(bbox and name, null on an exception).filter(...), from index i on;
\* idx remembers the place of the country in features
CountriesWithBbox(features, i) ==
  IF i > Len(features) THEN <<>>
  ELSE
    LET countryFeature == Feature(features[i].geometry)
        b == BboxOfFeature(countryFeature)
        countryName == CountryName(features[i])
        rest == CountriesWithBbox(features, i + 1)
    IN IF KeepItem(b, countryName)
       THEN <<[idx |-> i, countryFeature |-> countryFeature, bbox |-> b.val,
               countryName |-> countryName]>> \o rest
       ELSE rest

\* the quick bounding box check of a point: TRUE when the country is skipped
PointOutsideBbox(lng, lat, bbox) ==
  lng < bbox[1] \/ lng > bbox[3] \/ lat < bbox[2] \/ lat > bbox[4]

\* one iteration of the loop over countriesWithBbox; what ended it
TestCountry(placePoint, lng, lat, item) ==
  IF PointOutsideBbox(lng, lat, item.bbox) THEN "skip"
  ELSE
    LET inside == PointInCountry(placePoint, item.countryFeature)
    IN IF inside.raised THEN "caught"
       ELSE IF inside.val THEN "hit"
       ELSE "miss"

\* !place.geocoded || !place.lat || !place.lng: the place is passed over
SkipsPlace(place) == ~place.geocoded \/ place.lat = 0 \/ place.lng = 0

\* StopsAfter without the break
StopsNever(outcome) == FALSE

\* StopsAfter with a break in the catch block too
StopsAfterCaught(outcome) == outcome \in {"hit", "caught"}

\* what the loop does after an iteration: stop at a hit, go on otherwise
StopsAfter(outcome) == outcome = "hit"

RECURSIVE FindCountry(_, _, _, _, _)
\* the loop over countriesWithBbox for one place: the countries tested, in order
FindCountry(placePoint, lng, lat, items, k) ==
  IF k > Len(items) THEN <<>>
  ELSE
    LET o == TestCountry(placePoint, lng, lat, items[k])
        here == [idx |-> items[k].idx, countryName |-> items[k].countryName,
                 outcome |-> o]
    IN IF StopsAfter(o) THEN <<here>>
       ELSE <<here>> \o FindCountry(placePoint, lng, lat, items, k + 1)

Range(s) == {s[i] : i \in DOMAIN s}

\* Set.prototype.add on a set kept in insertion order
SetAdd(s, x) == IF x \in Range(s) THEN s ELSE Append(s, x)

\* the names a place's loop adds to visitedCountryNames
Hits(tested) == SelectSeq(tested, LAMBDA t : t.outcome = "hit")

RECURSIVE AddAll(_, _)
AddAll(names, hits) ==
  IF hits = <<>> THEN names
  ELSE AddAll(SetAdd(names, Head(hits).countryName), Tail(hits))

RECURSIVE VisitPlaces(_, _, _, _, _)
\* the loop over geocodedPlaces: the set of names and, per place, what was tested
VisitPlaces(places, items, p, names, log) ==
  IF p > Len(places) THEN [names |-> names, log |-> log]
  ELSE IF SkipsPlace(places[p])
  THEN VisitPlaces(places, items, p + 1, names,
                   Append(log, [skipped |-> TRUE, tested |-> <<>>]))
  ELSE
    LET placePoint == Point(places[p].lng, places[p].lat)
        tested == FindCountry(placePoint, places[p].lng, places[p].lat, items, 1)
    IN VisitPlaces(places, items, p + 1, AddAll(names, Hits(tested)),
                   Append(log, [skipped |-> FALSE, tested |-> tested]))

RECURSIVE Insert(_, _)
Insert(sorted, x) ==
  IF sorted = <<>> THEN <<x>>
  ELSE IF StrLess(x, Head(sorted)) THEN <<x>> \o sorted
  ELSE <<Head(sorted)>> \o Insert(Tail(sorted), x)

RECURSIVE SortNames(_)
\* Array.prototype.sort() without a comparator: ascending code-unit order
SortNames(list) ==
  IF list = <<>> THEN <<>>
  ELSE Insert(SortNames(Tail(list)), Head(list))

\* CountryList without the sort
CountryListUnsorted(names) == names

\* Array.from(visitedCountryNames).sort()
CountryList(names) == SortNames(names)

\* the visitedCountriesData memo, with the log of its loops
VisitedCountries(features, places) ==
  IF Len(features) = 0 \/ Len(places) = 0
  THEN [count |-> 0, list |-> <<>>, log |-> <<>>]
  ELSE
    LET v == VisitPlaces(places, CountriesWithBbox(features, 1), 1, <<>>, <<>>)
        countryList == CountryList(v.names)
    IN [count |-> Len(countryList), list |-> countryList, log |-> v.log]

-----------------------------------------------------------------------------
(* The component.                                                          *)

scratchedCircles == ScratchedCirclesOf(geocodedPlaces)

\* Globe.jsx: const STORAGE_KEY; geocoder.js: const GEOCODE_CACHE_KEY
STORAGE_KEY == "scratch-map-scratched-countries"
GEOCODE_CACHE_KEY == "scratch-map-geocode-cache"

\* What localStorage.getItem returns: null for an absent key, else a text. A text
\* is modelled by what JSON.parse makes of it: kind "array" or "object" with the
\* parsed value, "number" (valid JSON that is neither), "garbage" (no JSON), or
\* "empty" (the empty string).
Stored(kind, val) == [kind |-> kind, val |-> val]
Null == Stored("null", <<>>)

\* a browser store that holds nothing
EmptyStorage == [k \in {STORAGE_KEY, GEOCODE_CACHE_KEY} |-> Null]

\* The click-and-drag component is not on the page.
GlobeUnmounted ==
  /\ mounted = FALSE
  /\ scratchedCountries = <<>>
  /\ isDragging = FALSE
  /\ queue = <<>>
  /\ effects = {}

\* a result slot of a function that has not been called
NotCalled == [called |-> FALSE, value |-> 0]

\* No utility function has been called.
\* geocoded.json without a places member: geocodedDataFile.places || {} is {}
NoDataFile == [hasPlaces |-> FALSE, places |-> <<>>]

\* geocodePlaces has not been called
NotRunning ==
  [pc |-> "idle", places |-> <<>>, apiKey |-> FALSE, i |-> 0, results |-> <<>>,
   progress |-> <<>>, fetched |-> FALSE, waited |-> 0, gaps |-> <<>>, trace |-> <<>>]

\* The geocoder is loaded and has not been called.
GeocoderIdle ==
  /\ geocodedDataFile = NoDataFile
  /\ run = NotRunning

\* the initial values of useState in DataLoader
NoStats ==
  [totalPlaces |-> 0, geocodedCount |-> 0, failedCount |-> 0, cachedCount |-> 0,
   totalArea |-> 0]

\* DataLoader is not rendered
LoaderUnmounted ==
  [mounted |-> FALSE, places |-> <<>>, geocodedPlaces |-> <<>>, isLoading |-> FALSE,
   error |-> "null", stats |-> NoStats]

UtilitiesIdle ==
  /\ circlesCollection = [type |-> "FeatureCollection", features |-> <<>>]
  /\ mergeResult = NotCalled
  /\ areaResult = NotCalled
  /\ GeocoderIdle
  /\ loader = LoaderUnmounted

Init ==
  /\ GlobeUnmounted
  /\ UtilitiesIdle
  /\ storageFault = "none"
  /\ localStorage = EmptyStorage
  /\ persisted = <<>>
  /\ geocodedPlaces \in SeqsUpTo(PlaceFixtures, MaxPlaces)
  /\ countries = [features |-> <<>>]
  /\ fetchStatus = "pending"
  /\ scratchLog = <<>>
  /\ polygonCapColor = <<>>
  /\ visitLog = <<>>
  /\ visitedCountriesData = [count |-> 0, list |-> <<>>]

\* .then(data => setCountries(data)) and the render that follows: the memos are
\* recomputed and the globe asks getPolygonColor for every polygon
SetCountries(data) ==
  /\ fetchStatus = "pending"
  /\ fetchStatus' = "loaded"
  /\ countries' = data
  /\ scratchLog' = [i \in DOMAIN data.features |->
                      IsCountryScratched(scratchedCircles, data.features[i])]
  /\ polygonCapColor' = [i \in DOMAIN data.features |-> GetPolygonColor(scratchLog'[i])]
  /\ LET v == VisitedCountries(data.features, geocodedPlaces)
     IN /\ visitLog' = v.log
        /\ visitedCountriesData' = [count |-> v.count, list |-> v.list]
  /\ UNCHANGED <<geocodedPlaces, clickVars, utilityVars>>

\* .catch(err => console.error(...)): the countries stay empty
FetchFailed ==
  /\ fetchStatus = "pending"
  /\ fetchStatus' = "failed"
  /\ UNCHANGED <<geocodedPlaces, countries, scratchLog, polygonCapColor, visitLog,
                 visitedCountriesData, clickVars, utilityVars>>

Next ==
  \/ \E features \in SeqsUpTo(CountryFixtures, MaxCountries) :
       SetCountries([features |-> features])
  \/ FetchFailed

Spec == Init /\ [][Next]_vars

-----------------------------------------------------------------------------
(* What the claims speak of, stated from the primitives alone.             *)

Polygons == DOMAIN countries.features
Disks == DOMAIN scratchedCircles

FeatureAt(i) == Feature(countries.features[i].geometry)
CenterOf(k) == Point(scratchedCircles[k].properties.lng, scratchedCircles[k].properties.lat)

\* the bounding boxes of country i and disk k share a point
BoxesOverlap(i, k) ==
  LET c == BboxOfFeature(FeatureAt(i)).val
      d == BboxOfCircle(scratchedCircles[k])
  IN /\ c[1] <= d[3] /\ d[1] <= c[3]
     /\ c[2] <= d[4] /\ d[2] <= c[4]

CentroidInDisk(i, k) == PointInCircle(Centroid(FeatureAt(i)), scratchedCircles[k])

CenterInCountry(i, k) ==
  LET r == PointInCountry(CenterOf(k), FeatureAt(i)) IN ~r.raised /\ r.val

PolygonsIntersect(i, k) ==
  LET r == Intersects(FeatureAt(i), scratchedCircles[k]) IN ~r.raised /\ r.val

\* the full geometric test of country i against disk k
GeometricOverlap(i, k) ==
  CentroidInDisk(i, k) \/ CenterInCountry(i, k) \/ PolygonsIntersect(i, k)

\* no primitive raises on country i, whichever disk it is tested against
NoPrimitiveRaises(i) ==
  /\ ~BboxOfFeature(FeatureAt(i)).raised
  /\ \A k \in Disks : /\ ~PointInCountry(CenterOf(k), FeatureAt(i)).raised
                      /\ ~Intersects(FeatureAt(i), scratchedCircles[k]).raised

\* country i and disk k pass the box check and fail both point-in-polygon tests,
\* and the intersection primitive raises on them
IntersectionRaises(i, k) ==
  /\ ~BboxOfFeature(FeatureAt(i)).raised
  /\ BoxesOverlap(i, k)
  /\ ~CentroidInDisk(i, k)
  /\ ~PointInCountry(CenterOf(k), FeatureAt(i)).raised
  /\ ~CenterInCountry(i, k)
  /\ Intersects(FeatureAt(i), scratchedCircles[k]).raised

\* the centroid of country i is at most 1.5 times the radius from the centre of disk k
CentroidNear(i, k) ==
  LET c == Centroid(FeatureAt(i))
  IN 2 * DistNum(c, scratchedCircles[k].properties.lng, scratchedCircles[k].properties.lat)
       <= 3 * scratchedCircles[k].radius * c.n

\* disk k on its own makes country i covered
DiskMatches(i, k) ==
  /\ ~BboxOfFeature(FeatureAt(i)).raised
  /\ BoxesOverlap(i, k)
  /\ \/ CentroidInDisk(i, k)
     \/ CenterInCountry(i, k)
     \/ /\ ~PointInCountry(CenterOf(k), FeatureAt(i)).raised
        /\ \/ PolygonsIntersect(i, k)
           \/ IntersectionRaises(i, k) /\ CentroidNear(i, k)

\* a primitive other than the intersection test raises on country i and disk k
PairAborts(i, k) ==
  /\ ~BboxOfFeature(FeatureAt(i)).raised
  /\ BoxesOverlap(i, k)
  /\ ~CentroidInDisk(i, k)
  /\ PointInCountry(CenterOf(k), FeatureAt(i)).raised

Rendered == fetchStatus = "loaded"

-----------------------------------------------------------------------------
(* C1: when no geometry primitive raises on a country, the coverage test   *)
(* returns true for it exactly when some disk of the collection has a      *)
(* bounding box overlapping the country's and passes one of the three      *)
(* tests (centroid in disk, centre in country, polygons intersect); with   *)
(* no such disk, an empty collection included, it returns false, wherever  *)
(* the matching disk stands in the collection.                             *)
C1_CoveredIffSomeDiskMatches ==
  Rendered =>
    \A i \in Polygons :
      NoPrimitiveRaises(i) =>
        /\ scratchLog[i].value
             <=> \E k \in Disks : BoxesOverlap(i, k) /\ GeometricOverlap(i, k)
        /\ polygonCapColor[i] = (IF scratchLog[i].value THEN Transparent ELSE Opaque)

\* a country matched by the second disk only, through the intersection test alone
C1_Witness ==
  /\ Rendered
  /\ \E i \in Polygons :
       /\ NoPrimitiveRaises(i)
       /\ Len(scratchedCircles) = 2
       /\ ~(BoxesOverlap(i, 1) /\ GeometricOverlap(i, 1))
       /\ BoxesOverlap(i, 2) /\ PolygonsIntersect(i, 2)
       /\ ~CentroidInDisk(i, 2) /\ ~CenterInCountry(i, 2)
       /\ polygonCapColor[i] = Transparent

(* C2, as claimed: a primitive failure on one (country, disk) pair is      *)
(* local to the pair, so a country that a later disk matches is reported   *)
(* covered.                                                                *)
C2_AnyFailureIsLocal ==
  Rendered =>
    \A i \in Polygons : \A j, k \in Disks :
      (j < k /\ (PairAborts(i, j) \/ IntersectionRaises(i, j)) /\ DiskMatches(i, k))
        => scratchLog[i].value

(* C2, amended: a failure of the polygon intersection primitive on one     *)
(* pair is local to the pair: the later disks are still evaluated and a    *)
(* country that a later disk matches is reported covered, unless another   *)
(* primitive raised before that disk; a failure of point-in-polygon on a   *)
(* pair that no earlier disk matched ends the test, and the country is     *)
(* reported not covered whatever the later disks.                          *)
C2_IntersectionFailureIsLocal ==
  Rendered =>
    \A i \in Polygons :
      /\ \A j, k \in Disks :
           (/\ j < k
            /\ IntersectionRaises(i, j) /\ ~CentroidNear(i, j)
            /\ DiskMatches(i, k)
            /\ \A m \in 1..k : ~PairAborts(i, m))
             => /\ scratchLog[i].value
                /\ (\A m \in 1..(j - 1) : ~DiskMatches(i, m))
                     => /\ Len(scratchLog[i].log) > j
                        /\ scratchLog[i].log[j] = "fallbackMiss"
      /\ \A j \in Disks :
           (/\ PairAborts(i, j)
            /\ \A m \in 1..(j - 1) : ~DiskMatches(i, m) /\ ~PairAborts(i, m))
             => /\ ~scratchLog[i].value
                /\ Len(scratchLog[i].log) = j

\* the intersection test raised on the first disk, the distance check failed, and
\* the second disk matched
C2_Witness ==
  /\ Rendered
  /\ \E i \in Polygons :
       /\ Len(scratchedCircles) = 2
       /\ IntersectionRaises(i, 1) /\ ~CentroidNear(i, 1)
       /\ DiskMatches(i, 2)
       /\ Len(scratchLog[i].log) = 2
       /\ polygonCapColor[i] = Transparent

\* processing country i ends in the outer catch
GeometryFails(i) ==
  /\ Len(scratchedCircles) > 0
  /\ \/ BboxOfFeature(FeatureAt(i)).raised
     \/ \E j \in Disks : PairAborts(i, j) /\ \A m \in 1..(j - 1) : ~DiskMatches(i, m)

C4_FallbackWithin150km ==
  Rendered =>
    \A i \in Polygons : \A k \in Disks :
      (IntersectionRaises(i, k) /\ Len(scratchLog[i].log) >= k) =>
        IF 2 * Distance(Centroid(FeatureAt(i)), CenterOf(k)).num
             <= 2 * 150 * Distance(Centroid(FeatureAt(i)), CenterOf(k)).den
        THEN /\ scratchLog[i].log[k] = "fallback"
             /\ Len(scratchLog[i].log) = k
             /\ scratchLog[i].value
        ELSE /\ scratchLog[i].log[k] = "fallbackMiss"
             /\ k < Len(scratchedCircles) => Len(scratchLog[i].log) > k

\* the distance check failed on the first disk and succeeded, at exactly 150 km, on
\* the second
C4_Witness ==
  /\ Rendered
  /\ \E i \in Polygons :
       /\ Len(scratchedCircles) = 2
       /\ IntersectionRaises(i, 1) /\ IntersectionRaises(i, 2)
       /\ scratchLog[i].log = <<"fallbackMiss", "fallback">>
       /\ LET d == Distance(Centroid(FeatureAt(i)), CenterOf(2))
          IN d.num = 150 * d.den

(* C5: the bounding-box rejection never gives a false negative: a disk the *)
(* four-sided comparison skips is one for which the full geometric test    *)
(* (centroid in disk, centre in country or polygon intersection) reports   *)
(* no overlap.                                                             *)
C5_BoxRejectionIsSound ==
  Rendered =>
    \A i \in Polygons : \A k \in Disks :
      GeometricOverlap(i, k) =>
        /\ k <= Len(scratchLog[i].log) => scratchLog[i].log[k] # "skip"
        /\ ~BboxOfFeature(FeatureAt(i)).raised
             => ~BboxDisjoint(BboxOfFeature(FeatureAt(i)).val,
                              BboxOfCircle(scratchedCircles[k]))

\* a polygon with one disk skipped by the box check, and one whose box only touches
\* the box of a disk that it intersects
C5_Witness ==
  /\ Rendered
  /\ \E i \in Polygons : \E k \in Disks :
       /\ countries.features[i].geometry.type = "Polygon"
       /\ k <= Len(scratchLog[i].log)
       /\ scratchLog[i].log[k] = "skip"
  /\ \E i \in Polygons : \E k \in Disks :
       /\ k <= Len(scratchLog[i].log)
       /\ BboxOfFeature(FeatureAt(i)).val[1] = BboxOfCircle(scratchedCircles[k])[3]
       /\ scratchLog[i].log[k] = "intersects"

\* no rectangle of country i shares a point with a rectangle of country j
CountriesDisjoint(i, j) ==
  \A a \in DOMAIN countries.features[i].geometry.rects :
    \A b \in DOMAIN countries.features[j].geometry.rects :
      LET r == countries.features[i].geometry.rects[a]
          q == countries.features[j].geometry.rects[b]
      IN r.x1 < q.x0 \/ q.x1 < r.x0 \/ r.y1 < q.y0 \/ q.y1 < r.y0

\* every point of disk k lies in one polygon of country i
DiskInsideCountry(i, k) ==
  LET d == BboxOfCircle(scratchedCircles[k])
  IN \E a \in DOMAIN countries.features[i].geometry.rects :
       LET r == countries.features[i].geometry.rects[a]
       IN r.x0 <= d[1] /\ d[3] <= r.x1 /\ r.y0 <= d[2] /\ d[4] <= r.y1

WellFormed(i) ==
  /\ countries.features[i].geometry.type \in {"Polygon", "MultiPolygon"}
  /\ ~countries.features[i].geometry.degenerate

(* C6: for pairwise disjoint country polygons and a single disk entirely   *)
(* inside one of them, the coverage test returns true for that country and *)
(* false for every other one, also when the other's bounding box overlaps  *)
(* the disk's.                                                             *)
C6_OnlyTheContainingCountry ==
  (/\ Rendered
   /\ Len(scratchedCircles) = 1
   /\ \A i \in Polygons : WellFormed(i)
   /\ \A i, j \in Polygons : i # j => CountriesDisjoint(i, j)
   /\ \E i \in Polygons : DiskInsideCountry(i, 1))
  => \A i \in Polygons : scratchLog[i].value <=> DiskInsideCountry(i, 1)

-----------------------------------------------------------------------------
Places == DOMAIN geocodedPlaces

\* the index in scratchedCircles of the disk built around place p
DiskOfPlace(p) == Len(SelectSeq(SubSeq(geocodedPlaces, 1, p), HasCoordinates))

\* the countries the loop of place p reported as containing it
HitsOf(p) ==
  {t \in DOMAIN visitLog[p].tested : visitLog[p].tested[t].outcome = "hit"}

(* C7: the visited statistic is stricter than the coverage test: a country *)
(* whose name is in the list because a place lies inside it is reported    *)
(* covered, by the whole collection and by the disk around that place.     *)
C7_VisitedIsCovered ==
  Rendered =>
    /\ \A p \in DOMAIN visitLog : \A t \in HitsOf(p) :
         LET i == visitLog[p].tested[t].idx
         IN /\ scratchLog[i].value
            /\ polygonCapColor[i] = Transparent
            /\ DiskOfPlace(p) \in Disks
            /\ scratchedCircles[DiskOfPlace(p)] = CreateCircle(geocodedPlaces[p])
            /\ DiskMatches(i, DiskOfPlace(p))
            /\ IsCountryScratched(<<CreateCircle(geocodedPlaces[p])>>,
                                  countries.features[i]).value
    /\ \A n \in Range(visitedCountriesData.list) :
         \E p \in DOMAIN visitLog : \E t \in HitsOf(p) :
           visitLog[p].tested[t].countryName = n

\* the second place lies in a country that the disk of the first place does not match
C7_Witness ==
  /\ Rendered
  /\ Len(scratchedCircles) = 2
  /\ Len(visitLog) = 2
  /\ \E t \in HitsOf(2) :
       LET i == visitLog[2].tested[t].idx
       IN /\ ~DiskMatches(i, 1)
          /\ visitLog[2].tested[t].countryName \in Range(visitedCountriesData.list)
          /\ polygonCapColor[i] = Transparent

\* country i is kept for matching: its bounding box is computed and it has a name
Matchable(i) ==
  /\ ~BboxOfFeature(FeatureAt(i)).raised
  /\ CountryName(countries.features[i]) # NoStr

\* the bounding box and the polygon of country i contain place p
ContainsPlace(i, p) ==
  LET b == BboxOfFeature(FeatureAt(i)).val
      pl == geocodedPlaces[p]
      r == PointInCountry(Point(pl.lng, pl.lat), FeatureAt(i))
  IN /\ b[1] <= pl.lng /\ pl.lng <= b[3] /\ b[2] <= pl.lat /\ pl.lat <= b[4]
     /\ ~r.raised /\ r.val

Candidates(p) == {i \in Polygons : Matchable(i) /\ ContainsPlace(i, p)}

TestedIdx(p) == {visitLog[p].tested[t].idx : t \in DOMAIN visitLog[p].tested}

Geocoded(p) ==
  geocodedPlaces[p].geocoded /\ geocodedPlaces[p].lat # 0 /\ geocodedPlaces[p].lng # 0

C9_SortedDistinctCounted ==
  LET list == visitedCountriesData.list
  IN /\ visitedCountriesData.count = Len(list)
     /\ \A a, b \in DOMAIN list : a < b => StrLess(list[a], list[b])
     /\ Rendered =>
          Range(list) = UNION {{visitLog[p].tested[t].countryName : t \in HitsOf(p)} :
                                 p \in DOMAIN visitLog}
     /\ (Len(geocodedPlaces) = 0 \/ Len(countries.features) = 0)
          => visitedCountriesData = [count |-> 0, list |-> <<>>]

\* two names found in descending order and listed in ascending order
C9_Witness ==
  /\ Rendered
  /\ Len(visitLog) = 2
  /\ \E t \in HitsOf(1) : \E u \in HitsOf(2) :
       /\ StrLess(visitLog[2].tested[u].countryName, visitLog[1].tested[t].countryName)
       /\ visitedCountriesData.list = <<visitLog[2].tested[u].countryName,
                                        visitLog[1].tested[t].countryName>>
  /\ visitedCountriesData.count = 2

\* the geometry of country i is missing (undefined, null) or is no polygon
BadGeometry(i) == countries.features[i].geometry.type \notin {"Polygon", "MultiPolygon"}

WithoutCountry(i) ==
  SubSeq(countries.features, 1, i - 1)
    \o SubSeq(countries.features, i + 1, Len(countries.features))

(* C10: a country with malformed or missing geometry is left out of the    *)
(* matching without aborting it: the result is the one computed for the    *)
(* collection without that country.                                        *)
C10_BadGeometryIsExcluded ==
  Rendered =>
    \A i \in Polygons :
      BadGeometry(i) =>
        LET v == VisitedCountries(WithoutCountry(i), geocodedPlaces)
        IN /\ visitedCountriesData = [count |-> v.count, list |-> v.list]
           /\ \A p \in DOMAIN visitLog : \A t \in HitsOf(p) :
                visitLog[p].tested[t].idx # i

\* point-in-polygon raised on a malformed country whose box contains the place, and
\* the next country was found for the place
C10_Witness ==
  /\ Rendered
  /\ \E p \in DOMAIN visitLog :
       /\ Len(visitLog[p].tested) = 2
       /\ visitLog[p].tested[1].outcome = "caught"
       /\ BadGeometry(visitLog[p].tested[1].idx)
       /\ visitLog[p].tested[2].outcome = "hit"
       /\ visitedCountriesData.count = 1

-----------------------------------------------------------------------------
(* The click-and-drag globe component (src/src/components/Globe.jsx).      *)
(*                                                                         *)
(* React is modelled by its commit cycle: a state setter called from an    *)
(* effect or a promise appends an update to the queue; a render applies    *)
(* the queued updates in order, commits the new state, recolours the       *)
(* polygons and schedules the effects whose dependencies changed;          *)
(* FlushPassiveEffects runs the scheduled effects in source order. React   *)
(* runs the effects of a commit before it renders again, and renders the   *)
(* update of a mouse event, with all that is queued, before the handler    *)
(* returns. The page can be closed or reloaded at any moment: the          *)
(* component state is gone, the browser store stays.                       *)

MaxCountriesShown == 2   \* features in the GeoJSON the click component loads
MaxStored == 2           \* ids in the array a previous session left in the store

\* 'unknown'
Unknown == <<117, 110, 107, 110, 111, 119, 110>>

\* a record without the lower-case name
UpperNamed ==
  Country(Props(<<78>>, <<69>>, NoStr, <<65>>, NoStr),
          Geometry("Polygon", <<Rect(100, 0, 200, 100)>>, FALSE))
\* a record with NAME_EN only
EnglishOnly ==
  Country(Props(NoStr, <<69>>, NoStr, NoStr, NoStr),
          Geometry("Polygon", <<Rect(200, 0, 300, 100)>>, FALSE))

\* Degenerate has no name at all and Malformed has NAME_LONG only, which
\* getCountryId does not read.
GlobeFixtures == {UpperNamed, EnglishOnly, Degenerate, Malformed}

\* getCountryId
GetCountryIdWithoutNameEn(country) ==
  LET p == country.properties
  IN IF Truthy(p.name) THEN p.name
     ELSE IF Truthy(p.NAME) THEN p.NAME
     ELSE IF Truthy(p.ADMIN) THEN p.ADMIN
     ELSE Unknown

GetCountryIdWithNameLong(country) ==
  LET p == country.properties
  IN IF Truthy(p.name) THEN p.name
     ELSE IF Truthy(p.NAME) THEN p.NAME
     ELSE IF Truthy(p.ADMIN) THEN p.ADMIN
     ELSE IF Truthy(p.NAME_EN) THEN p.NAME_EN
     ELSE IF Truthy(p.NAME_LONG) THEN p.NAME_LONG
     ELSE Unknown

GetCountryId(country) ==
  LET p == country.properties
  IN IF Truthy(p.name) THEN p.name
     ELSE IF Truthy(p.NAME) THEN p.NAME
     ELSE IF Truthy(p.ADMIN) THEN p.ADMIN
     ELSE IF Truthy(p.NAME_EN) THEN p.NAME_EN
     ELSE Unknown

\* Set.prototype.has
Has(set, id) == id \in Range(set)

RECURSIVE NewSet(_)
\* new Set(array): the distinct elements in the order of their first occurrence
NewSet(array) ==
  IF array = <<>> THEN <<>>
  ELSE LET init == NewSet(SubSeq(array, 1, Len(array) - 1))
       IN SetAdd(init, array[Len(array)])

\* JSON.stringify([...set])
StringifySet(set) == Stored("array", set)

OpaqueDark == "rgba(0, 0, 0, 1)"

GetPolygonColorInverted(scratched, country) ==
  IF Has(scratched, GetCountryId(country)) THEN OpaqueDark ELSE Transparent

\* getPolygonColor of Globe.jsx, over the scratchedCountries of its closure
GetPolygonColorById(scratched, country) ==
  LET countryId == GetCountryId(country)
      isScratched == Has(scratched, countryId)
  IN IF isScratched THEN Transparent ELSE OpaqueDark

\* One call of a state setter.
Update(op, ids, flag, data) == [op |-> op, ids |-> ids, flag |-> flag, data |-> data]
SetScratchedCountries(set) == Update("setScratchedCountries", set, FALSE, <<>>)
AddScratched(id) == Update("add", <<id>>, FALSE, <<>>)
SetIsDragging(flag) == Update("setIsDragging", <<>>, flag, <<>>)
SetCountriesUpdate(data) == Update("setCountries", <<>>, FALSE, data.features)

\* the state a render starts from: every setter of scratchedCountries returns a
\* new Set object, so the save effect's dependency changes with each of them
ApplyUpdateForgetting(st, u) ==
  CASE u.op = "setScratchedCountries" ->
         [st EXCEPT !.scratched = u.ids, !.changed = TRUE]
    [] u.op = "add" ->
         [st EXCEPT !.scratched = <<u.ids[1]>>, !.changed = TRUE]
    [] u.op = "setIsDragging" -> [st EXCEPT !.dragging = u.flag]
    [] u.op = "setCountries" -> [st EXCEPT !.countries = [features |-> u.data]]

ApplyUpdate(st, u) ==
  CASE u.op = "setScratchedCountries" ->
         [st EXCEPT !.scratched = u.ids, !.changed = TRUE]
    [] u.op = "add" ->
         [st EXCEPT !.scratched = SetAdd(st.scratched, u.ids[1]), !.changed = TRUE]
    [] u.op = "setIsDragging" -> [st EXCEPT !.dragging = u.flag]
    [] u.op = "setCountries" -> [st EXCEPT !.countries = [features |-> u.data]]

RECURSIVE Reduce(_, _)
Reduce(st, updates) ==
  IF updates = <<>> THEN st
  ELSE Reduce(ApplyUpdate(st, Head(updates)), Tail(updates))

\* the load effect: what it passes to setScratchedCountries, if anything
LoadEffect(saved, readable) ==
  IF ~readable THEN <<>>                         \* getItem raised: caught
  ELSE IF saved.kind \in {"null", "empty"} THEN <<>>   \* if (saved) fails
  ELSE IF saved.kind = "array" THEN <<SetScratchedCountries(NewSet(saved.val))>>
  ELSE <<>>                                      \* JSON.parse or new Set raised: caught

\* the save effect: the value of the key after it; a setItem that raises is caught
SaveEffectDropsLast(store, set, writable) ==
  IF writable /\ set # <<>> THEN StringifySet(SubSeq(set, 1, Len(set) - 1)) ELSE store

SaveEffect(store, set, writable) ==
  IF writable THEN StringifySet(set) ELSE store

\* what the click component does not have
notGlobe == <<geocodedPlaces, scratchLog, visitLog, visitedCountriesData, utilityVars>>

globeVars == <<vars, clickVars, utilityVars>>

\* the ids a stored value holds
IdsOf(saved) == IF saved.kind = "array" THEN NewSet(saved.val) ELSE <<>>

\* what a previous session may have left under STORAGE_KEY
StoredFixtures ==
  {Null, Stored("empty", <<>>), Stored("garbage", <<>>), Stored("number", <<>>)}
    \cup {Stored("array", a) : a \in SeqsUpTo({<<78>>, Unknown}, MaxStored)}

InitGlobe ==
  /\ GlobeUnmounted
  /\ UtilitiesIdle
  /\ storageFault = "none"
  /\ \E saved \in StoredFixtures :
       /\ localStorage = [EmptyStorage EXCEPT ![STORAGE_KEY] = saved]
       /\ persisted = IdsOf(saved)
  /\ countries = [features |-> <<>>]
  /\ fetchStatus = "idle"
  /\ polygonCapColor = <<>>
  /\ geocodedPlaces = <<>>
  /\ scratchLog = <<>>
  /\ visitLog = <<>>
  /\ visitedCountriesData = [count |-> 0, list |-> <<>>]

\* the first render: every useState takes its initial value, every effect is due
Mount ==
  /\ ~mounted
  /\ mounted' = TRUE
  /\ scratchedCountries' = <<>>
  /\ isDragging' = FALSE
  /\ countries' = [features |-> <<>>]
  /\ polygonCapColor' = <<>>
  /\ queue' = <<>>
  /\ effects' = {"load", "save", "fetch"}
  /\ UNCHANGED <<fetchStatus, localStorage, storageFault, persisted, notGlobe>>

\* the effects of the last commit, in source order: load (lines 14-24), save
\* (27-33), fetch (78-84). The save effect writes the set of the committed render.
FlushPassiveEffects(readable, writable) ==
  /\ mounted
  /\ effects # {}
  /\ queue' = IF "load" \in effects
                THEN queue \o LoadEffect(localStorage[STORAGE_KEY], readable)
                ELSE queue
  /\ IF "save" \in effects
       THEN localStorage' =
              [localStorage EXCEPT ![STORAGE_KEY] =
                 SaveEffect(localStorage[STORAGE_KEY], scratchedCountries, writable)]
       ELSE UNCHANGED localStorage
  /\ storageFault' =
       IF "save" \in effects /\ ~writable THEN "save"
       ELSE IF "load" \in effects /\ ~readable THEN "past"
       ELSE IF storageFault = "none" THEN "none"
       ELSE "past"
  /\ fetchStatus' = IF "fetch" \in effects THEN "pending" ELSE fetchStatus
  /\ effects' = {}
  /\ UNCHANGED <<mounted, scratchedCountries, isDragging, countries, polygonCapColor,
                 persisted, notGlobe>>

\* a render of the given updates and its commit
Commit(updates) ==
  /\ LET st == Reduce([scratched |-> scratchedCountries, dragging |-> isDragging,
                       countries |-> countries, changed |-> FALSE], updates)
     IN /\ scratchedCountries' = st.scratched
        /\ isDragging' = st.dragging
        /\ countries' = st.countries
        /\ polygonCapColor' =
             [i \in DOMAIN st.countries.features |->
                GetPolygonColorById(st.scratched, st.countries.features[i])]
        /\ effects' = IF st.changed THEN {"save"} ELSE {}
  /\ queue' = <<>>
  /\ UNCHANGED <<mounted, fetchStatus, localStorage, storageFault, persisted, notGlobe>>

\* React renders what the effects and the fetch have queued
Render ==
  /\ mounted
  /\ effects = {}
  /\ queue # <<>>
  /\ Commit(queue)

\* .then(data => setCountries(data))
CountriesLoaded(data) ==
  /\ mounted
  /\ fetchStatus = "pending"
  /\ fetchStatus' = "loaded"
  /\ queue' = Append(queue, SetCountriesUpdate(data))
  /\ UNCHANGED <<mounted, scratchedCountries, isDragging, countries, polygonCapColor,
                 effects, localStorage, storageFault, persisted, notGlobe>>

\* .catch(err => console.error(...))
CountriesFailed ==
  /\ mounted
  /\ fetchStatus = "pending"
  /\ fetchStatus' = "failed"
  /\ UNCHANGED <<countries, polygonCapColor, clickVars, notGlobe>>

\* a mouse event reaches its handler once the effects of the last commit have run
CanHandle == mounted /\ effects = {}

HandleMouseDown == CanHandle /\ Commit(Append(queue, SetIsDragging(TRUE)))

\* onMouseUp and onMouseLeave
HandleMouseUp == CanHandle /\ Commit(Append(queue, SetIsDragging(FALSE)))

\* polygon is an index into countries.features, or 0 for null
HoverScratchesAlways(dragging, polygon) == polygon # 0

\* if (isDragging && polygon)
HoverScratches(dragging, polygon) == dragging /\ polygon # 0

\* a hover that scratches nothing sets no state, and nothing is rendered
HandlePolygonHover(polygon) ==
  /\ CanHandle
  /\ IF HoverScratches(isDragging, polygon)
       THEN Commit(Append(queue, AddScratched(GetCountryId(countries.features[polygon]))))
       ELSE UNCHANGED globeVars

HandlePolygonClick(polygon) ==
  /\ CanHandle
  /\ polygon # 0
  /\ Commit(Append(queue, AddScratched(GetCountryId(countries.features[polygon]))))

\* the page is closed or reloaded
EndSession ==
  /\ mounted
  /\ mounted' = FALSE
  /\ scratchedCountries' = <<>>
  /\ isDragging' = FALSE
  /\ queue' = <<>>
  /\ effects' = {}
  /\ countries' = [features |-> <<>>]
  /\ polygonCapColor' = <<>>
  /\ fetchStatus' = "idle"
  /\ UNCHANGED <<localStorage, storageFault, persisted, notGlobe>>

NextGlobe ==
  \/ Mount
  \/ \E readable, writable \in BOOLEAN : FlushPassiveEffects(readable, writable)
  \/ Render
  \/ \E features \in SeqsUpTo(GlobeFixtures, MaxCountriesShown) :
       CountriesLoaded([features |-> features])
  \/ CountriesFailed
  \/ HandleMouseDown
  \/ HandleMouseUp
  \/ \E polygon \in 0..Len(countries.features) : HandlePolygonHover(polygon)
  \/ \E polygon \in 0..Len(countries.features) : HandlePolygonClick(polygon)
  \/ EndSession

SpecGlobe == InitGlobe /\ [][NextGlobe]_globeVars

-----------------------------------------------------------------------------
(* Claims about the click-and-drag component.                              *)

IdAt(i) == GetCountryId(countries.features[i])

\* Set.prototype.delete, which the component never calls
SetDelete(set, id) == SelectSeq(set, LAMBDA x : x # id)

(* C11: the click-based scratched test is set membership of the country's  *)
(* identifier: every polygon is rendered transparent exactly when          *)
(* getCountryId of its country is in the scratch set; with the identifier  *)
(* added to the set the test is true, with it removed the test is false.   *)
C11_RevealedIffInScratchSet ==
  /\ DOMAIN polygonCapColor = Polygons
  /\ \A i \in Polygons :
       /\ polygonCapColor[i] \in {Transparent, OpaqueDark}
       /\ polygonCapColor[i] = Transparent <=> IdAt(i) \in Range(scratchedCountries)
       /\ GetPolygonColorById(SetAdd(scratchedCountries, IdAt(i)),
                              countries.features[i]) = Transparent
       /\ GetPolygonColorById(SetDelete(scratchedCountries, IdAt(i)),
                              countries.features[i]) = OpaqueDark

\* two polygons with different identifiers are shown, one scratched and one not
C11_Witness ==
  /\ mounted
  /\ Len(countries.features) = 2
  /\ polygonCapColor[1] = Transparent
  /\ polygonCapColor[2] = OpaqueDark
  /\ IdAt(1) \in Range(scratchedCountries)
  /\ effects = {}

\* the name properties in the order of the claim
NameFields(p) == <<p.name, p.NAME, p.ADMIN, p.NAME_EN>>

RECURSIVE FirstNonEmpty(_)
FirstNonEmpty(fields) ==
  IF fields = <<>> THEN Unknown
  ELSE IF Head(fields) # NoStr THEN Head(fields)
  ELSE FirstNonEmpty(Tail(fields))

\* every way of having or lacking each property
PropsUniverse ==
  {Props(a, b, c, d, e) : a \in {NoStr, <<78>>}, b \in {NoStr, <<69>>},
                          c \in {NoStr, <<76>>}, d \in {NoStr, <<65>>},
                          e \in {NoStr, <<110>>}}

OnlyNameEn(p) == p.NAME_EN # NoStr /\ p.name = NoStr /\ p.NAME = NoStr /\ p.ADMIN = NoStr

IdIsFirstNonEmpty(country) ==
  LET p == country.properties
  IN /\ GetCountryId(country) = FirstNonEmpty(NameFields(p))
     /\ GetCountryId(country) = Unknown <=> \A k \in 1..4 : NameFields(p)[k] = NoStr
     /\ OnlyNameEn(p) => GetCountryId(country) = p.NAME_EN

(* C12: getCountryId returns the first non-empty of name, NAME, ADMIN,     *)
(* NAME_EN and 'unknown' only when all four are absent or empty; a record  *)
(* with NAME_EN alone yields NAME_EN. The identifier a click puts into the *)
(* scratch set is the one so computed.                                     *)
C12_FirstNonEmptyNameField ==
  /\ \A p \in PropsUniverse :
       IdIsFirstNonEmpty(Country(p, Geometry("Polygon", <<>>, FALSE)))
  /\ \A i \in Polygons :
       /\ IdIsFirstNonEmpty(countries.features[i])
       /\ polygonCapColor[i] = Transparent
            <=> FirstNonEmpty(NameFields(countries.features[i].properties))
                  \in Range(scratchedCountries)

\* a country with NAME_EN alone was clicked: its NAME_EN, not 'unknown', is in the set
C12_Witness ==
  /\ mounted
  /\ persisted = <<>>
  /\ \E i \in Polygons :
       /\ OnlyNameEn(countries.features[i].properties)
       /\ polygonCapColor[i] = Transparent
       /\ countries.features[i].properties.NAME_EN \in Range(scratchedCountries)
  /\ Unknown \notin Range(scratchedCountries)

Unnamed(country) == \A k \in 1..4 : NameFields(country.properties)[k] = NoStr

(* C13: two distinct countries that both lack every name field share the   *)
(* identifier 'unknown': a click or a drag-hover on one of them leaves     *)
(* every such country scratched and rendered transparent.                  *)
C13_UnnamedCountriesCollide ==
  [][\A i \in Polygons :
       (Unnamed(countries.features[i])
          /\ (HandlePolygonClick(i) \/ HandlePolygonHover(i)))
       => /\ countries' = countries
          /\ \A j \in Polygons :
               Unnamed(countries.features[j])
               => /\ GetCountryId(countries.features[j]) \in Range(scratchedCountries')
                  /\ polygonCapColor'[j] = Transparent]_globeVars

\* two different unnamed countries are transparent after a gesture on one of them
C13_Witness ==
  /\ mounted
  /\ persisted = <<>>
  /\ Len(countries.features) = 2
  /\ countries.features[1] # countries.features[2]
  /\ Unnamed(countries.features[1]) /\ Unnamed(countries.features[2])
  /\ polygonCapColor[1] = Transparent /\ polygonCapColor[2] = Transparent
  /\ scratchedCountries = <<Unknown>>

\* the save effect of the last commit has run
SaveEffectHasRun == mounted /\ effects = {}

(* C14 as stated: once the pending save effect has run, the array stored   *)
(* under the storage key holds exactly the identifiers of the in-memory    *)
(* scratch set.                                                            *)
C14_StoreHoldsTheSet ==
  SaveEffectHasRun => localStorage[STORAGE_KEY] = StringifySet(scratchedCountries)

(* C14, amended: once the pending save effect has run without setItem      *)
(* raising, the array stored under the storage key holds exactly the       *)
(* identifiers of the in-memory scratch set, in insertion order; a save    *)
(* whose setItem raised leaves the store as it was.                        *)
C14_StoreHoldsTheSetUnlessWriteRaised ==
  /\ []((SaveEffectHasRun /\ storageFault # "save")
          => localStorage[STORAGE_KEY] = StringifySet(scratchedCountries))
  /\ [][(\E r \in BOOLEAN : FlushPassiveEffects(r, FALSE))
          => localStorage' = localStorage]_globeVars

\* a gesture added an identifier the store did not hold, and the save wrote it
C14_Witness ==
  /\ SaveEffectHasRun
  /\ storageFault = "none"
  /\ persisted = <<<<78>>>>
  /\ scratchedCountries = <<<<78>>, Unknown>>
  /\ localStorage[STORAGE_KEY] = Stored("array", <<<<78>>, Unknown>>)

\* the component is mounted and nothing is left to run or to render
Quiescent == mounted /\ effects = {} /\ queue = <<>>

(* C15: the scratch set survives across sessions: whatever a previous      *)
(* session persisted is, after startup, in the in-memory set and in the    *)
(* store again, in any number of mount cycles, as long as the store can be *)
(* read and written.                                                       *)
C15_PersistedSurvivesStartup ==
  (Quiescent /\ storageFault = "none")
    => /\ Range(persisted) \subseteq Range(scratchedCountries)
       /\ Range(persisted) \subseteq Range(IdsOf(localStorage[STORAGE_KEY]))

-----------------------------------------------------------------------------
(* The area aggregation (src/src/utils/radiusCalculator.js): mergeCircles  *)
(* and calculateTotalArea.                                                 *)
(*                                                                         *)
(* In the coordinates u = lng + lat, v = lng - lat the taxicab disk of     *)
(* radius r is the square [u - r, u + r] x [v - r, v + r]. The centres of  *)
(* the fixtures are multiples of the radius, so every disk is a set of     *)
(* whole cells of side RADIUS_KM, a polygon or multipolygon is the set of  *)
(* the cells it covers, turf.union is the union of the sets and turf.area  *)
(* counts the cells. turf.union raises on a polygon that is numerically    *)
(* degenerate, turf.area on a feature that is none.                        *)

MaxCircles == 3

\* the cells of a circle of createCircle
CellsOfCircle(circle) ==
  LET u == circle.properties.lng + circle.properties.lat
      v == circle.properties.lng - circle.properties.lat
      n == circle.radius \div RADIUS_KM
  IN {<<a, b>> : a \in ((u \div RADIUS_KM) - n)..((u \div RADIUS_KM) + n - 1),
                 b \in ((v \div RADIUS_KM) - n)..((v \div RADIUS_KM) + n - 1)}

PolygonFeature(cells, degenerate) ==
  [cells |-> cells, degenerate |-> degenerate, malformed |-> FALSE]

\* the circle of createCircle(place.lat, place.lng) as a polygon feature
CircleFeature(place, degenerate) ==
  PolygonFeature(CellsOfCircle(CreateCircle(place)), degenerate)

\* a feature that is null
NullFeature == [cells |-> {}, degenerate |-> TRUE, malformed |-> TRUE]

\* Circles: one around (300, 200), one that shares a cell with it, one apart from
\* both, and one on whose coordinates turf.union raises, which overlaps the first.
CircleFixtures ==
  {CircleFeature(Place(300, 200), FALSE), CircleFeature(Place(400, 200), FALSE),
   CircleFeature(Place(300, 400), FALSE), CircleFeature(Place(300, 300), TRUE)}

FeatureCollection(features) == [type |-> "FeatureCollection", features |-> features]

\* turf.union(turf.featureCollection([a, b]))
Union(a, b) ==
  IF a.malformed \/ b.malformed \/ a.degenerate \/ b.degenerate THEN Raise
  ELSE Ok(PolygonFeature(a.cells \cup b.cells, FALSE))

\* km2 of one cell: a square of side RADIUS_KM in (u, v) is half of that in km2
CellKm2 == (RADIUS_KM * RADIUS_KM) \div 2

\* turf.area(feature); the unit is 1000 m2 instead of 1 m2, so that the area of a
\* few disks stays within the integers of the model checker
Area(feature) ==
  IF feature.malformed THEN Raise
  ELSE Ok(Cardinality(feature.cells) * CellKm2 * 1000)

RECURSIVE UnionLoop(_, _, _)
\* for (let i = 1; ...) merged = turf.union(...), the catch leaving merged as it is
UnionLoop(merged, features, i) ==
  IF i > Len(features) THEN merged
  ELSE LET u == Union(merged, features[i])
       IN UnionLoop(IF u.raised THEN merged ELSE u.val, features, i + 1)

\* mergeCircles; a collection without a features member is the empty one. Nothing
\* outside the inner try raises, so the outer catch is never entered.
MergeCircles(circles) ==
  IF Len(circles.features) = 0 THEN FeatureCollection(<<>>)
  ELSE IF Len(circles.features) = 1 THEN circles
  ELSE FeatureCollection(<<UnionLoop(circles.features[1], circles.features, 2)>>)

\* Math.PI as the fraction 355 / 113
PiNum == 355
PiDen == 113

RECURSIVE SumAreas(_, _)
\* totalArea += turf.area(feature) / 1000000, over the features left (1000 units of
\* Area are one km2)
SumAreas(features, totalArea) ==
  IF features = <<>> THEN Ok(totalArea)
  ELSE LET a == Area(Head(features))
       IN IF a.raised THEN Raise
          ELSE SumAreas(Tail(features), totalArea + (a.val \div 1000))

\* calculateTotalArea, in whole km2
CalculateTotalArea(circles) ==
  IF Len(circles.features) = 0 THEN 0
  ELSE LET total == SumAreas(MergeCircles(circles).features, 0)
       IN IF total.raised
            THEN (Len(circles.features) * PiNum * RADIUS_KM * RADIUS_KM) \div PiDen
            ELSE total.val

notArea == <<vars, clickVars, geoVars, loaderVars>>

InitArea ==
  /\ circlesCollection \in
       {FeatureCollection(f) : f \in SeqsUpTo(CircleFixtures \cup {NullFeature}, MaxCircles)}
  /\ mergeResult = NotCalled
  /\ areaResult = NotCalled
  /\ GeocoderIdle
  /\ loader = LoaderUnmounted
  /\ GlobeUnmounted
  /\ storageFault = "none"
  /\ localStorage = EmptyStorage
  /\ persisted = <<>>
  /\ geocodedPlaces = <<>>
  /\ countries = [features |-> <<>>]
  /\ fetchStatus = "idle"
  /\ scratchLog = <<>>
  /\ polygonCapColor = <<>>
  /\ visitLog = <<>>
  /\ visitedCountriesData = [count |-> 0, list |-> <<>>]

CallMergeCircles ==
  /\ ~mergeResult.called
  /\ mergeResult' = [called |-> TRUE, value |-> MergeCircles(circlesCollection)]
  /\ UNCHANGED <<circlesCollection, areaResult, notArea>>

CallCalculateTotalArea ==
  /\ ~areaResult.called
  /\ areaResult' = [called |-> TRUE, value |-> CalculateTotalArea(circlesCollection)]
  /\ UNCHANGED <<circlesCollection, mergeResult, notArea>>

NextArea == CallMergeCircles \/ CallCalculateTotalArea

SpecArea == InitArea /\ [][NextArea]_<<areaVars, notArea>>

-----------------------------------------------------------------------------
(* Claims about the area aggregation.                                      *)

Circles == DOMAIN circlesCollection.features

\* every feature of the collection is a coverage disk
OnlyDisks == \A i \in Circles : ~circlesCollection.features[i].malformed

\* the cells the features of a collection cover
Covered(collection) == UNION {f.cells : f \in Range(collection.features)}

\* the union of step i of the loop of mergeCircles raises
UnionRaisesAt(i) ==
  LET f == circlesCollection.features
  IN Union(UnionLoop(f[1], SubSeq(f, 1, i - 1), 2), f[i]).raised

(* C16: a disk for which the union fails is left un-merged and is still    *)
(* counted: the collection mergeCircles returns covers it and the total of *)
(* calculateTotalArea is at least the area the disks cover together.       *)
C16_FailedUnionIsCountedSeparately ==
  (OnlyDisks /\ mergeResult.called /\ areaResult.called)
    => \A i \in Circles :
         (i > 1 /\ UnionRaisesAt(i))
           => /\ circlesCollection.features[i].cells \subseteq Covered(mergeResult.value)
              /\ areaResult.value >= Cardinality(Covered(circlesCollection)) * CellKm2

\* the collection with one more circle after its first k features
InsertedAt(circle, k) ==
  FeatureCollection(SubSeq(circlesCollection.features, 1, k) \o <<circle>>
                      \o SubSeq(circlesCollection.features, k + 1,
                                Len(circlesCollection.features)))

ContainedInSome(circle) ==
  \E k \in Circles : circle.cells \subseteq circlesCollection.features[k].cells

(* C17: calculateTotalArea does not decrease when a disk is added to the   *)
(* collection, and adding a disk that lies within a disk of the collection *)
(* leaves the total as it is.                                              *)
C17_TotalAreaIsMonotone ==
  (OnlyDisks /\ areaResult.called)
    => /\ areaResult.value = CalculateTotalArea(circlesCollection)
       /\ \A circle \in CircleFixtures :
            \A k \in 0..Len(circlesCollection.features) :
              LET total == CalculateTotalArea(InsertedAt(circle, k))
              IN /\ total >= areaResult.value
                 /\ ContainedInSome(circle) => total = areaResult.value

\* ---------------------------------------------------------------------------
\* The geocoder: src/src/utils/geocoder.js
\* ---------------------------------------------------------------------------

\* the places handed to one call of geocodePlaces
MaxRun == 2

\* the pause between two requests and the pause after OVER_QUERY_LIMIT, in ms
RateDelayMs == 100
QuotaDelayMs == 2000

\* String.prototype.toLowerCase on a string of character codes
LowerChar(c) == IF c >= 65 /\ c <= 90 THEN c + 32 ELSE c

ToLowerCase(str) == [k \in 1..Len(str) |-> LowerChar(str[k])]

\* A JS object used as a map is a function from its keys to their values.
EmptyObject == <<>>

\* {...a, ...b}: the properties of b replace those of a
SpreadBundledWins(a, b) ==
  [k \in (DOMAIN a) \cup (DOMAIN b) |-> IF k \in DOMAIN a THEN a[k] ELSE b[k]]

Spread(a, b) ==
  [k \in (DOMAIN a) \cup (DOMAIN b) |-> IF k \in DOMAIN b THEN b[k] ELSE a[k]]

\* obj[key] = val
Put(obj, key, val) ==
  [k \in (DOMAIN obj) \cup {key} |-> IF k = key THEN val ELSE obj[k]]

\* obj[key] || null: an entry is an object, hence truthy
Hit(entry) == [found |-> TRUE, entry |-> entry]
Miss == [found |-> FALSE, entry |-> <<>>]
GetOrNull(obj, key) == IF key \in DOMAIN obj THEN Hit(obj[key]) ELSE Miss

\* an entry of the cache
Entry(lat, lng, formattedAddress) ==
  [lat |-> lat, lng |-> lng, formattedAddress |-> formattedAddress]

FromFile == Entry(1, 1, <<70>>)
FromOverlay == Entry(2, 2, <<79>>)

\* the result geocodeAddress builds from data.results[0]
FromNetwork == [lat |-> 3, lng |-> 3, formattedAddress |-> <<78>>, placeId |-> <<78>>]

\* geocodedDataFile.places || {}
FileData(file) == IF file.hasPlaces THEN file.places ELSE EmptyObject

\* localData is a non-empty string that JSON.parse accepts
OverlayParses(stored, readable) == readable /\ stored.kind \in {"object", "number"}

\* the own enumerable properties of the parsed value: a number has none
Parsed(stored) == IF stored.kind = "object" THEN stored.val ELSE EmptyObject

\* getGeocodeCache: readable is FALSE when localStorage.getItem raises
GetGeocodeCache(file, stored, readable) ==
  IF OverlayParses(stored, readable)
    THEN Spread(FileData(file), Parsed(stored))
    ELSE FileData(file)

\* getGeocodeCache returned the places object of the module itself, not a copy
ReturnsFileData(file, stored, readable) ==
  file.hasPlaces /\ ~OverlayParses(stored, readable)

\* cacheGeocodeResult: the entry is set on the object getGeocodeCache returned,
\* then the whole object is written; writable is FALSE when setItem raises.
CacheGeocodeResult(file, stored, query, result, readable, writable) ==
  LET cache == Put(GetGeocodeCache(file, stored, readable), ToLowerCase(query), result)
  IN [file |-> IF ReturnsFileData(file, stored, readable)
                 THEN [file EXCEPT !.places = cache]
                 ELSE file,
      stored |-> IF writable THEN Stored("object", cache) ELSE stored]

GetCachedResultExactCase(file, stored, query, readable) ==
  GetOrNull(GetGeocodeCache(file, stored, readable), query)

\* getCachedResult
GetCachedResult(file, stored, query, readable) ==
  GetOrNull(GetGeocodeCache(file, stored, readable), ToLowerCase(query))

\* The queries getSearchQuery returns: "P", "p", "q" and none.
QueryFixtures == {<<80>>, <<112>>, <<113>>, NoStr}

\* a place, with what getSearchQuery returns for it
PlaceOf(query) == [query |-> query]
GetSearchQuery(place) == place.query

\* The bundled data/geocoded.json: keys are lower-cased queries.
DataFile(places) == [hasPlaces |-> TRUE, places |-> places]
KeyP == <<112>>
KeyQ == <<113>>
DataFileFixtures ==
  {NoDataFile, DataFile(EmptyObject), DataFile(Put(EmptyObject, KeyQ, FromFile)),
   DataFile(Put(Put(EmptyObject, KeyP, FromFile), KeyQ, FromFile))}

\* What an earlier session left under GEOCODE_CACHE_KEY.
OverlayFixtures ==
  {Null, Stored("empty", <<>>), Stored("garbage", <<>>), Stored("number", <<>>),
   Stored("object", EmptyObject), Stored("object", Put(EmptyObject, KeyP, FromOverlay)),
   Stored("object", Put(EmptyObject, KeyQ, FromOverlay))}

\* the answers of the Geocoding API to one request
Outcomes ==
  {"OK", "OK_NO_RESULTS", "ZERO_RESULTS", "REQUEST_DENIED", "OVER_QUERY_LIMIT",
   "UNKNOWN_ERROR", "HTTP_ERROR", "NETWORK_ERROR"}

\* results.push of geocodePlaces
GeocodedResult(place, coords) ==
  [place |-> place, lat |-> coords.lat, lng |-> coords.lng,
   formattedAddress |-> coords.formattedAddress, geocoded |-> TRUE]
FailedResult(place, error) == [place |-> place, geocoded |-> FALSE, error |-> error]

overlay == localStorage[GEOCODE_CACHE_KEY]
CurrentPlace == run.places[run.i + 1]

\* The end of a loop body of geocodePlaces: onProgress, then the rate limit.
\* source says where the answer of the place came from.
RateLimit(r, file, stored, readable, source) ==
  LET query == GetSearchQuery(r.places[r.i + 1])
      cached == GetCachedResult(file, stored, query, readable)
      wait == ~cached.found /\ r.i < Len(r.places) - 1
  IN [r EXCEPT !.progress = Append(@, <<r.i + 1, Len(r.places)>>),
               !.trace = Append(@, [source |-> source, wait |-> wait,
                                    last |-> r.i = Len(r.places) - 1]),
               !.pc = IF wait THEN "rateDelay" ELSE "top",
               !.i = IF wait THEN @ ELSE @ + 1]

notGeocoder ==
  <<vars, areaVars, loaderVars, mounted, scratchedCountries, isDragging, queue, effects,
    storageFault, persisted>>

geocoderVars == <<geoVars, localStorage, notGeocoder>>

InitGeocoder ==
  /\ geocodedDataFile \in DataFileFixtures
  /\ localStorage \in {[EmptyStorage EXCEPT ![GEOCODE_CACHE_KEY] = o] : o \in OverlayFixtures}
  /\ run = NotRunning
  /\ loader = LoaderUnmounted
  /\ circlesCollection = [type |-> "FeatureCollection", features |-> <<>>]
  /\ mergeResult = NotCalled
  /\ areaResult = NotCalled
  /\ GlobeUnmounted
  /\ storageFault = "none"
  /\ persisted = <<>>
  /\ geocodedPlaces = <<>>
  /\ countries = [features |-> <<>>]
  /\ fetchStatus = "idle"
  /\ scratchLog = <<>>
  /\ polygonCapColor = <<>>
  /\ visitLog = <<>>
  /\ visitedCountriesData = [count |-> 0, list |-> <<>>]

\* startGeocoding calls geocodePlaces(places, apiKey, onProgress, getSearchQuery)
GeocodePlaces(places, apiKey) ==
  /\ run.pc = "idle"
  /\ run' = [run EXCEPT !.pc = "top", !.places = places, !.apiKey = apiKey]
  /\ UNCHANGED <<geocodedDataFile, localStorage, notGeocoder>>

\* geocodeAddress up to the request: null without an address or a key, else
\* the cached entry, else the request
Returned(kind, entry) == [kind |-> kind, entry |-> entry]

BeforeRequestIgnoringCache(address, apiKey, cached) ==
  IF ~Truthy(address) \/ ~apiKey THEN Returned("null", <<>>) ELSE Returned("fetch", <<>>)

BeforeRequest(address, apiKey, cached) ==
  IF ~Truthy(address) \/ ~apiKey
    THEN Returned("null", <<>>)
    ELSE IF cached.found
      THEN Returned("cached", cached.entry)
      ELSE Returned("fetch", <<>>)

\* the answers after which geocodeAddress calls cacheGeocodeResult
CachesEveryAnswer(outcome) == outcome \in {"OK", "ZERO_RESULTS"}

CachesResult(outcome) == outcome = "OK"

\* the answer whose error, API_KEY_INVALID, geocodePlaces throws again
RethrownNever(outcome) == FALSE

Rethrown(outcome) == outcome = "REQUEST_DENIED"

\* The loop test and the loop body up to the first await that waits: the
\* request of geocodeAddress, or the pause of the rate limit when
\* geocodeAddress returned without a request.
LoopTop(readable) ==
  /\ run.pc = "top"
  /\ IF run.i >= Len(run.places)
       THEN run' = [run EXCEPT !.pc = "returned"]
       ELSE LET place == CurrentPlace
                query == GetSearchQuery(place)
                cached == GetCachedResult(geocodedDataFile, overlay, query, readable)
                coords == BeforeRequest(query, run.apiKey, cached)
            IN IF ~Truthy(query)
                 THEN run' = [run EXCEPT !.i = @ + 1]
                 ELSE IF coords.kind = "null"
                   THEN run' = RateLimit([run EXCEPT !.results =
                                            Append(@, FailedResult(place, "No results found"))],
                                         geocodedDataFile, overlay, readable, "none")
                   ELSE IF coords.kind = "cached"
                     THEN run' = RateLimit([run EXCEPT !.results =
                                              Append(@, GeocodedResult(place, coords.entry))],
                                           geocodedDataFile, overlay, readable, "cache")
                     ELSE run' = [run EXCEPT !.pc = "fetch",
                                             !.fetched = TRUE,
                                             !.gaps = IF run.fetched THEN Append(@, run.waited) ELSE @,
                                             !.waited = 0]
  /\ UNCHANGED <<geocodedDataFile, localStorage, notGeocoder>>

\* The request is answered: the rest of geocodeAddress and of the loop body.
Respond(outcome, readable, writable) ==
  /\ run.pc = "fetch"
  /\ LET place == CurrentPlace
         query == GetSearchQuery(place)
         written == CacheGeocodeResult(geocodedDataFile, overlay, query, FromNetwork,
                                       readable, writable)
         error == CASE outcome = "HTTP_ERROR" -> "HTTP error: 500"
                    [] outcome = "NETWORK_ERROR" -> "Failed to fetch"
                    [] outcome = "OVER_QUERY_LIMIT" -> "QUOTA_EXCEEDED"
                    [] OTHER -> "No results found"
     IN CASE CachesResult(outcome) ->
               /\ geocodedDataFile' = written.file
               /\ localStorage' = [localStorage EXCEPT ![GEOCODE_CACHE_KEY] = written.stored]
               /\ run' = RateLimit([run EXCEPT !.results = Append(@, GeocodedResult(place, FromNetwork))],
                                   written.file, written.stored, readable, "network")
          [] Rethrown(outcome) ->
               /\ run' = [run EXCEPT !.pc = "threw"]
               /\ UNCHANGED <<geocodedDataFile, localStorage>>
          [] outcome = "OVER_QUERY_LIMIT" ->
               /\ run' = [run EXCEPT !.results = Append(@, FailedResult(place, error)),
                                     !.pc = "quotaDelay"]
               /\ UNCHANGED <<geocodedDataFile, localStorage>>
          [] OTHER ->
               /\ run' = RateLimit([run EXCEPT !.results = Append(@, FailedResult(place, error))],
                                   geocodedDataFile, overlay, readable, "network")
               /\ UNCHANGED <<geocodedDataFile, localStorage>>
  /\ UNCHANGED notGeocoder

\* delay(2000) is over: the loop body goes on with onProgress and the rate limit
QuotaDelayElapsed(readable) ==
  /\ run.pc = "quotaDelay"
  /\ run' = RateLimit([run EXCEPT !.waited = @ + QuotaDelayMs],
                      geocodedDataFile, overlay, readable, "network")
  /\ UNCHANGED <<geocodedDataFile, localStorage, notGeocoder>>

\* delay(100) is over: the next iteration
RateDelayElapsed ==
  /\ run.pc = "rateDelay"
  /\ run' = [run EXCEPT !.waited = @ + RateDelayMs, !.pc = "top", !.i = @ + 1]
  /\ UNCHANGED <<geocodedDataFile, localStorage, notGeocoder>>

NextGeocoder ==
  \/ \E places \in SeqsUpTo({PlaceOf(query) : query \in QueryFixtures}, MaxRun),
        apiKey \in BOOLEAN : GeocodePlaces(places, apiKey)
  \/ \E readable \in BOOLEAN : LoopTop(readable)
  \/ \E outcome \in Outcomes, readable \in BOOLEAN, writable \in BOOLEAN :
       Respond(outcome, readable, writable)
  \/ \E readable \in BOOLEAN : QuotaDelayElapsed(readable)
  \/ RateDelayElapsed

SpecGeocoder == InitGeocoder /\ [][NextGeocoder]_geocoderVars

\* the dataset as it was bundled is what getGeocodeCache reads from the module
\* object at the time of the call
MergedCache(readable) == GetGeocodeCache(geocodedDataFile, overlay, readable)

SameUpToCase(a, b) ==
  /\ Len(a) = Len(b)
  /\ \A k \in 1..Len(a) : LowerChar(a[k]) = LowerChar(b[k])

\* C19: the lookup is by the lower-cased query: every entry of the merged
\* cache, written by cacheGeocodeResult or bundled, is what getCachedResult
\* returns for every query equal to the key of the entry up to letter case.
C19_LookupIgnoresCase ==
  \A readable \in BOOLEAN :
    \A k \in DOMAIN MergedCache(readable) :
      \A query \in QueryFixtures :
        SameUpToCase(query, k) =>
          GetCachedResult(geocodedDataFile, overlay, query, readable)
            = Hit(MergedCache(readable)[k])

\* the entry cacheGeocodeResult wrote for "P" is found for "P" and for "p",
\* and so is the bundled entry of "q" for "q"
C19_Witness ==
  /\ run.pc = "returned"
  /\ Len(run.places) = 1
  /\ GetSearchQuery(run.places[1]) = <<80>>
  /\ run.trace[1].source = "network"
  /\ overlay.kind = "object"
  /\ KeyP \in DOMAIN overlay.val
  /\ overlay.val[KeyP] = FromNetwork
  /\ KeyQ \in DOMAIN FileData(geocodedDataFile)
  /\ GetCachedResult(geocodedDataFile, overlay, <<80>>, TRUE) = Hit(FromNetwork)
  /\ GetCachedResult(geocodedDataFile, overlay, KeyP, TRUE) = Hit(FromNetwork)
  /\ GetCachedResult(geocodedDataFile, overlay, KeyQ, TRUE) = Hit(FromFile)

\* C20: between two consecutive requests of one run of geocodePlaces there is
\* a wait of at least 100 ms, and the wait before the next place is skipped
\* only after a place that was answered from the cache without a request.
C20_RequestsAreSpacedByTheDelay ==
  /\ \A k \in 1..Len(run.gaps) : run.gaps[k] >= RateDelayMs
  /\ \A k \in 1..Len(run.trace) :
       (~run.trace[k].wait /\ ~run.trace[k].last) => run.trace[k].source = "cache"

\* the loop body asks geocodeAddress for the current place
CallsGeocodeAddress ==
  /\ run.pc = "top"
  /\ run.i < Len(run.places)
  /\ Truthy(GetSearchQuery(CurrentPlace))

\* no request is sent in the step
NoRequest ==
  /\ run'.pc # "fetch"
  /\ run'.fetched = run.fetched
  /\ run'.gaps = run.gaps
  /\ run'.waited = run.waited

\* C22: geocodeAddress checks the cache first: whenever getCachedResult(address)
\* is non-null when it is called, it returns that entry and sends no request;
\* and without an address or an API key it returns null and sends no request.
C22_CacheIsCheckedFirst ==
  [][\A readable \in BOOLEAN :
       (CallsGeocodeAddress /\ LoopTop(readable)) =>
         LET cached == GetCachedResult(geocodedDataFile, overlay,
                                       GetSearchQuery(CurrentPlace), readable)
         IN /\ cached.found =>
                 /\ NoRequest
                 /\ run'.results = Append(run.results, GeocodedResult(CurrentPlace, cached.entry))
            /\ ~run.apiKey =>
                 /\ NoRequest
                 /\ run'.results = Append(run.results,
                                          FailedResult(CurrentPlace, "No results found"))
    ]_geocoderVars

\* C22 (amended): called with an address and an API key, geocodeAddress returns
\* the entry getCachedResult(address) has, when it has one, and sends no
\* request; without an address or without an API key it returns null and sends
\* no request, whether or not the cache has an entry.
C22_CacheIsCheckedAfterTheArguments ==
  /\ [](\A address \in QueryFixtures, apiKey \in BOOLEAN, readable \in BOOLEAN :
          LET cached == GetCachedResult(geocodedDataFile, overlay, address, readable)
              coords == BeforeRequest(address, apiKey, cached)
          IN /\ (~Truthy(address) \/ ~apiKey) => coords = Returned("null", <<>>)
             /\ (Truthy(address) /\ apiKey /\ cached.found) =>
                  coords = Returned("cached", cached.entry))
  /\ [][\A readable \in BOOLEAN :
          (CallsGeocodeAddress /\ LoopTop(readable)) =>
            LET cached == GetCachedResult(geocodedDataFile, overlay,
                                          GetSearchQuery(CurrentPlace), readable)
            IN /\ (run.apiKey /\ cached.found) =>
                    /\ NoRequest
                    /\ run'.results = Append(run.results,
                                             GeocodedResult(CurrentPlace, cached.entry))
               /\ ~run.apiKey =>
                    /\ NoRequest
                    /\ run'.results = Append(run.results,
                                             FailedResult(CurrentPlace, "No results found"))
       ]_geocoderVars

\* a run with an API key whose only place was answered from the cache, no
\* request sent
C22_Witness ==
  /\ run.pc = "returned"
  /\ run.apiKey
  /\ Len(run.places) = 1
  /\ Len(run.trace) = 1
  /\ run.trace[1].source = "cache"
  /\ run.results = <<GeocodedResult(PlaceOf(KeyP), FromOverlay)>>
  /\ ~run.fetched

\* C23: only successful lookups are cached: the step that takes the answer to a
\* request writes to the durable store when the status is OK with a result
\* (the entry of the place, under its lower-cased query); a step that changes
\* the store takes no other answer (ZERO_RESULTS, REQUEST_DENIED,
\* OVER_QUERY_LIMIT, another status, an HTTP or network error) and no OK
\* whose write raised; no other step of geocodePlaces writes.
C23_OnlySuccessIsCached ==
  [][/\ run.pc = "fetch" =>
          /\ \A readable \in BOOLEAN :
               Respond("OK", readable, TRUE) =>
                 localStorage'[GEOCODE_CACHE_KEY] =
                   Stored("object", Put(MergedCache(readable),
                                        ToLowerCase(GetSearchQuery(CurrentPlace)),
                                        FromNetwork))
          /\ localStorage' # localStorage =>
               \A outcome \in Outcomes, readable \in BOOLEAN, writable \in BOOLEAN :
                 Respond(outcome, readable, writable) => (outcome = "OK" /\ writable)
     /\ run.pc # "fetch" => localStorage' = localStorage
    ]_geocoderVars

\* ZERO_RESULTS for "p" left the empty store empty, OK for "q" wrote its entry
C23_Witness ==
  /\ run.pc = "returned"
  /\ run.results = <<FailedResult(PlaceOf(KeyP), "No results found"),
                     GeocodedResult(PlaceOf(KeyQ), FromNetwork)>>
  /\ run.gaps = <<RateDelayMs>>
  /\ overlay = Stored("object", Put(EmptyObject, KeyQ, FromNetwork))

\* the keys a lower-cased query of the model can be
CacheKeys == {ToLowerCase(query) : query \in QueryFixtures \ {NoStr}}

\* C27: cacheGeocodeResult(query, result) changes the merged view of the cache
\* at the key query.toLowerCase() alone: at every other key getCachedResult
\* returns after the call what it returned before, and when the write to the
\* store raises, the merged view is the same at every key.
C27_CacheWriteChangesOneKey ==
  [][\A readable \in BOOLEAN, writable \in BOOLEAN :
       Respond("OK", readable, writable) =>
         LET key == ToLowerCase(GetSearchQuery(CurrentPlace))
         IN \A k \in CacheKeys :
              (k # key \/ ~writable) =>
                GetOrNull(MergedCache(readable)', k) = GetOrNull(MergedCache(readable), k)
    ]_geocoderVars

\* the identifier of the country under the pointer
IdOfPolygon(polygon) == GetCountryId(countries.features[polygon])

ShownPolygons == 1..Len(countries.features)

\* C25: a hover over a country adds its identifier to the scratch set while
\* dragging is active and leaves the set as it is while dragging is inactive;
\* dragging is active after a mouse-down and inactive after a mouse-up or a
\* mouse-leave, and nothing else starts it; a click on a country adds its
\* identifier whether dragging is active or not.
C25_HoverScratchesOnlyWhileDragging ==
  [][/\ HandleMouseDown => isDragging'
     /\ HandleMouseUp => ~isDragging'
     /\ (~isDragging /\ isDragging') => HandleMouseDown
     /\ \A polygon \in ShownPolygons :
          /\ (HandlePolygonHover(polygon) /\ isDragging) =>
               Has(scratchedCountries', IdOfPolygon(polygon))
          /\ (HandlePolygonHover(polygon) /\ ~isDragging) =>
               scratchedCountries' = scratchedCountries
          /\ HandlePolygonClick(polygon) =>
               Has(scratchedCountries', IdOfPolygon(polygon))
    ]_globeVars

\* dragging is active, the first of two countries is in the set and stored,
\* the second is not
C25_Witness ==
  /\ mounted
  /\ isDragging
  /\ Len(countries.features) = 2
  /\ scratchedCountries = <<GetCountryId(countries.features[1])>>
  /\ ~Has(scratchedCountries, GetCountryId(countries.features[2]))
  /\ localStorage[STORAGE_KEY] = StringifySet(scratchedCountries)

\* C26: within a session the scratch set only grows: no step between the
\* mount of the component and the end of the session (a click, a hover, a
\* mouse-up or mouse-leave, the arrival of the country data, a render, the
\* effects) removes an identifier, and a country drawn revealed is drawn
\* revealed after the step.
C26_ScratchSetOnlyGrows ==
  [][(mounted /\ mounted') =>
       /\ Range(scratchedCountries) \subseteq Range(scratchedCountries')
       /\ countries' = countries =>
            \A polygon \in ShownPolygons :
              polygonCapColor[polygon] = Transparent =>
                polygonCapColor'[polygon] = Transparent
    ]_globeVars

\* two identifiers in the set, the one loaded from the store and the one of
\* a country scratched in this session, both drawn revealed
C26_Witness ==
  /\ mounted
  /\ persisted = <<Unknown>>
  /\ scratchedCountries = <<Unknown, <<78>>>>
  /\ \E polygon \in ShownPolygons : polygonCapColor[polygon] = Transparent

\* ---------------------------------------------------------------------------
\* The panel: src/src/components/DataLoader.jsx
\* ---------------------------------------------------------------------------

ApiKeyRequired == "Google Maps API key is required"
InvalidApiKey == "Invalid API key. Please check your Google Maps API key."

\* a place loadCachedGeocodedData found in the cache
CachedResult(place, cached) ==
  [place |-> place, lat |-> cached.lat, lng |-> cached.lng,
   formattedAddress |-> cached.formattedAddress, geocoded |-> TRUE, cached |-> TRUE]

\* loadCachedGeocodedData: the cachedResults of allPlaces
RECURSIVE CachedResults(_, _, _, _)
CachedResults(allPlaces, file, stored, readable) ==
  IF allPlaces = <<>> THEN <<>>
  ELSE LET place == Head(allPlaces)
           query == GetSearchQuery(place)
           cached == IF Truthy(query)
                       THEN GetCachedResult(file, stored, query, readable)
                       ELSE Miss
       IN (IF cached.found THEN <<CachedResult(place, cached.entry)>> ELSE <<>>)
            \o CachedResults(Tail(allPlaces), file, stored, readable)

\* p.geocoded and p.cached of a result; an absent property is falsy
IsGeocoded(result) == result.geocoded
IsCached(result) == "cached" \in DOMAIN result /\ result.cached

\* Math.round(circles.length * Math.PI * radius * radius)
TotalArea(count) ==
  (2 * count * RADIUS_KM * RADIUS_KM * PiNum + PiDen) \div (2 * PiDen)

\* updateStats(geocoded), in a render whose places has the given length
UpdateStats(geocoded, placesLength) ==
  [totalPlaces |-> IF placesLength # 0 THEN placesLength ELSE Len(geocoded),
   geocodedCount |-> Len(SelectSeq(geocoded, IsGeocoded)),
   failedCount |-> Len(SelectSeq(geocoded, LAMBDA r : ~IsGeocoded(r))),
   cachedCount |-> Len(SelectSeq(geocoded, IsCached)),
   totalArea |-> TotalArea(Len(SelectSeq(geocoded, IsGeocoded)))]

\* the finally of startGeocoding
FinallyMissing(state) == state

Finally(state) == [state EXCEPT !.isLoading = FALSE]

notLoader ==
  <<vars, areaVars, mounted, scratchedCountries, isDragging, queue, effects,
    storageFault, persisted>>

loaderSpecVars == <<loaderVars, geoVars, localStorage, notLoader>>

\* the cache at the mount of the panel: no dataset, one that has "q", one
\* that has "p" and "q"; no overlay or one that has "q"
InitLoader ==
  /\ InitGeocoder
  /\ geocodedDataFile \in
       {NoDataFile, DataFile(Put(EmptyObject, KeyQ, FromFile)),
        DataFile(Put(Put(EmptyObject, KeyP, FromFile), KeyQ, FromFile))}
  /\ overlay \in {Null, Stored("object", Put(EmptyObject, KeyQ, FromOverlay))}

\* The mount of DataLoader: the first render, the effect that calls
\* loadCSVFiles, and the render of the state it set. loadCSVFiles,
\* loadCachedGeocodedData and updateStats are those of the first render, in
\* which places is the empty array.
LoadCSVFiles(allPlaces, readable) ==
  /\ ~loader.mounted
  /\ LET cachedResults == CachedResults(allPlaces, geocodedDataFile, overlay, readable)
         counted == [loader.stats EXCEPT !.totalPlaces = Len(allPlaces)]
     IN loader' = [loader EXCEPT
                     !.mounted = TRUE,
                     !.places = allPlaces,
                     !.geocodedPlaces = IF Len(cachedResults) > 0 THEN cachedResults ELSE @,
                     !.stats = IF Len(cachedResults) > 0
                                 THEN UpdateStats(cachedResults, Len(loader.places))
                                 ELSE counted]
  /\ UNCHANGED <<geoVars, localStorage, notLoader>>

\* A click on the button, disabled while loading or without places:
\* startGeocoding up to the call of geocodePlaces. apiKey is what getApiKey
\* returned, a key or null.
StartGeocoding(apiKey) ==
  /\ loader.mounted
  /\ ~loader.isLoading
  /\ Len(loader.places) # 0
  /\ run.pc = "idle"
  /\ IF ~apiKey
       THEN /\ loader' = [loader EXCEPT !.error = ApiKeyRequired]
            /\ UNCHANGED run
       ELSE /\ loader' = [loader EXCEPT !.isLoading = TRUE, !.error = "null"]
            /\ run' = [run EXCEPT !.pc = "top", !.places = loader.places, !.apiKey = TRUE]
  /\ UNCHANGED <<geocodedDataFile, localStorage, notLoader>>

\* geocodePlaces resolved: setGeocodedPlaces, updateStats, finally
GeocodingResolved ==
  /\ loader.isLoading
  /\ run.pc = "returned"
  /\ loader' = Finally([loader EXCEPT
                          !.geocodedPlaces = run.results,
                          !.stats = UpdateStats(run.results, Len(loader.places))])
  /\ UNCHANGED <<geoVars, localStorage, notLoader>>

\* geocodePlaces threw API_KEY_INVALID: catch, finally
GeocodingRejected ==
  /\ loader.isLoading
  /\ run.pc = "threw"
  /\ loader' = Finally([loader EXCEPT !.error = InvalidApiKey])
  /\ UNCHANGED <<geoVars, localStorage, notLoader>>

\* a step of the geocodePlaces that startGeocoding awaits
RunStep ==
  \/ \E readable \in BOOLEAN : LoopTop(readable)
  \/ \E outcome \in Outcomes, readable \in BOOLEAN, writable \in BOOLEAN :
       Respond(outcome, readable, writable)
  \/ \E readable \in BOOLEAN : QuotaDelayElapsed(readable)
  \/ RateDelayElapsed

NextLoader ==
  \/ \E allPlaces \in SeqsUpTo({PlaceOf(query) : query \in QueryFixtures}, MaxRun),
        readable \in BOOLEAN : LoadCSVFiles(allPlaces, readable)
  \/ \E apiKey \in BOOLEAN : StartGeocoding(apiKey)
  \/ RunStep
  \/ GeocodingResolved
  \/ GeocodingRejected

SpecLoader == InitLoader /\ [][NextLoader]_loaderSpecVars

\* Every request is answered, every timer fires and every settled promise is
\* handled.
SpecLoaderFair ==
  /\ SpecLoader
  /\ WF_loaderSpecVars(RunStep)
  /\ WF_loaderSpecVars(GeocodingResolved)
  /\ WF_loaderSpecVars(GeocodingRejected)

\* C21: a request answered REQUEST_DENIED stops geocodePlaces at once: it
\* throws, no result is pushed for the place, no step of the run follows (no
\* request for a later place), and no result reaches DataLoader: the
\* geocodedPlaces and the statistics displayed stay as they were during the
\* run and after the rejection, the invalid-key message is set and the
\* loading flag is cleared.
C21_RequestDeniedStopsTheRun ==
  [][/\ \A readable \in BOOLEAN, writable \in BOOLEAN :
          Respond("REQUEST_DENIED", readable, writable) =>
            /\ run' = [run EXCEPT !.pc = "threw"]
            /\ localStorage' = localStorage
     /\ run.pc = "threw" => run' = run
     /\ (loader.isLoading /\ run'.pc # "returned") =>
          loader'.geocodedPlaces = loader.geocodedPlaces
     /\ GeocodingRejected =>
          loader' = [loader EXCEPT !.error = InvalidApiKey, !.isLoading = FALSE]
    ]_loaderSpecVars

\* "q" was shown from the cache at mount; the run answered "q" from the cache
\* and was denied on "p": the one place shown is still shown, the partial
\* result of the run is not, and the message is set
C21_Witness ==
  /\ run.pc = "threw"
  /\ run.i = 1
  /\ run.results = <<GeocodedResult(PlaceOf(KeyQ), FromOverlay)>>
  /\ loader.geocodedPlaces = <<CachedResult(PlaceOf(KeyQ), FromOverlay)>>
  /\ loader.error = InvalidApiKey
  /\ ~loader.isLoading

\* C24: every run of startGeocoding that sets isLoading sets it back to
\* false, whether geocodePlaces resolves or throws; without an API key
\* isLoading stays false, no request is made and the message 'API key is
\* required' is set; nothing but startGeocoding with a key sets isLoading.
C24_LoadingFlagIsCleared ==
  /\ loader.isLoading ~> ~loader.isLoading
  /\ [][/\ StartGeocoding(FALSE) =>
             /\ ~loader'.isLoading
             /\ run' = run
             /\ loader'.error = ApiKeyRequired
        /\ (~loader.isLoading /\ loader'.isLoading) => StartGeocoding(TRUE)
       ]_loaderSpecVars

\* a run that resolved with a request sent: its results are shown and the
\* flag is cleared
C24_Witness ==
  /\ run.pc = "returned"
  /\ run.fetched
  /\ ~loader.isLoading
  /\ loader.geocodedPlaces = run.results
  /\ Len(run.results) = 2

\* C28: after loadCSVFiles, with the cached geocoded data loaded, the
\* statistic totalPlaces is the number of places extracted from the CSV
\* files, whether none, some or all of them are in the cache.
C28_TotalPlacesCountsThePlaces ==
  loader.mounted => loader.stats.totalPlaces = Len(loader.places)

=============================================================================
